---- MODULE Spec2Model ----
(***************************************************************************)
(* Drone swarm simulator (backend/simulators/mock_simulator.py).           *)
(*                                                                         *)
(* Fixed-point units: positions in mm, velocities in mm/s, time in ms,     *)
(* battery in thousandths of a percent.  The floating-point arithmetic of  *)
(* the source is modelled with round-to-nearest integer arithmetic in      *)
(* these units.                                                            *)
(*                                                                         *)
(* Path planner (backend/algorithms/trajectory_planner.py): waypoints and  *)
(* obstacles in cm, distances between a point and a segment in mm.         *)
(***************************************************************************)
EXTENDS Integers, Sequences, FiniteSets, TLC

VARIABLES drones, now, issued, noisy, plan, loop, experiment, solver

vars == <<drones, now, issued, noisy, plan, loop, experiment, solver>>

(***************************************************************************)
(* Bounds of the model.                                                    *)
(***************************************************************************)
MaxDrones == 2
MaxTicks == 3
MaxCommands == 2
MaxNoisy == 1
LiveTicks == 48

(***************************************************************************)
(* Program constants (DroneSimulator.__init__, DroneState defaults).       *)
(***************************************************************************)
tick_rate == 20
max_speed == 1000
max_height == 1000
workspace_bounds == 2000
battery_drain_rate == 100
position_noise_std == 10
velocity_noise_std == 5
FullBattery == 100000
LandedThreshold == 50
SlowDownRadius == 100
DefaultSpacing == 500
DefaultRadius == 1000
DefaultHeight == 600
LineHeight == 600

\* self.dt = 1.0 / self.tick_rate, in ms
dt == 1000 \div tick_rate

\* self.battery_drain_rate * self.dt, in thousandths of a percent
DrainPerTick == (battery_drain_rate * dt) \div 1000

DroneStatus == {"idle", "takingOff", "flying", "landing", "error"}

(***************************************************************************)
(* Arithmetic helpers.                                                     *)
(***************************************************************************)
Abs(a) == IF a < 0 THEN -a ELSE a

Min(a, b) == IF a < b THEN a ELSE b

Max(a, b) == IF a > b THEN a ELSE b

\* a / b for b > 0, rounded to the nearest integer (half away from zero)
RoundDiv(a, b) ==
    IF a >= 0 THEN (2 * a + b) \div (2 * b)
              ELSE -((2 * (-a) + b) \div (2 * b))

\* floor of the square root of n, by bisection of lo..hi
SqrtSearch[n \in Nat, lo \in Nat, hi \in Nat] ==
    IF lo >= hi THEN lo
    ELSE LET mid == (lo + hi + 1) \div 2
         IN  IF mid * mid <= n THEN SqrtSearch[n, mid, hi]
                               ELSE SqrtSearch[n, lo, mid - 1]

\* math.sqrt, rounded to the nearest integer
Sqrt(n) ==
    LET r == SqrtSearch[n, 0, 16384]
    IN  IF n - r * r > r THEN r + 1 ELSE r

\* v * self.dt : displacement in mm of a velocity in mm/s over one tick
Displacement(v) == RoundDiv(v, tick_rate)

\* min(self.max_speed, max(-self.max_speed, e))
ClampSpeed(e) == Min(max_speed, Max(-max_speed, e))

(***************************************************************************)
(* DroneState                                                              *)
(***************************************************************************)
NewDrone(id, run_id) ==
    [id |-> id, x |-> 0, y |-> 0, z |-> 0, vx |-> 0, vy |-> 0, vz |-> 0,
     battery |-> FullBattery, status |-> "idle",
     target_x |-> 0, target_y |-> 0, target_z |-> 0,
     takeoff_height |-> 0, takeoff_start |-> 0, takeoff_duration |-> 0,
     run_id |-> run_id]

(***************************************************************************)
(* Per-tick dynamics.                                                      *)
(***************************************************************************)
\* _update_takeoff that completes without snapping z to the commanded height
update_takeoff_no_snap(drone, current_time) ==
    LET elapsed == current_time - drone.takeoff_start
    IN  IF elapsed >= drone.takeoff_duration
        THEN [drone EXCEPT !.vz = 0, !.status = "flying"]
        ELSE LET target_z == RoundDiv(drone.takeoff_height * elapsed,
                                      drone.takeoff_duration)
                 error == target_z - drone.z
                 vz == ClampSpeed(error * 2)
             IN  [drone EXCEPT !.vz = vz, !.z = drone.z + Displacement(vz)]

\* _update_takeoff that completes only once the elapsed time exceeds a
\* duration of at least one tick period
update_takeoff_min_duration(drone, current_time) ==
    LET elapsed == current_time - drone.takeoff_start
    IN  IF elapsed >= Max(drone.takeoff_duration, dt)
        THEN [drone EXCEPT !.z = drone.takeoff_height,
                           !.vz = 0,
                           !.status = "flying"]
        ELSE LET target_z == RoundDiv(drone.takeoff_height * elapsed,
                                      Max(drone.takeoff_duration, dt))
                 error == target_z - drone.z
                 vz == ClampSpeed(error * 2)
             IN  [drone EXCEPT !.vz = vz, !.z = drone.z + Displacement(vz)]

\* _update_takeoff
update_takeoff(drone, current_time) ==
    LET elapsed == current_time - drone.takeoff_start
    IN  IF elapsed >= drone.takeoff_duration
        THEN [drone EXCEPT !.z = drone.takeoff_height,
                           !.vz = 0,
                           !.status = "flying"]
        ELSE LET target_z == RoundDiv(drone.takeoff_height * elapsed,
                                      drone.takeoff_duration)
                 error == target_z - drone.z
                 vz == ClampSpeed(error * 2)
             IN  [drone EXCEPT !.vz = vz, !.z = drone.z + Displacement(vz)]

\* _update_flying that snaps to the target once within the threshold
update_flying_snaps(drone, current_time) ==
    LET dx == drone.target_x - drone.x
        dy == drone.target_y - drone.y
        dz == drone.target_z - drone.z
        dist2 == dx * dx + dy * dy + dz * dz
        distance == Sqrt(dist2)
    IN  IF dist2 > LandedThreshold * LandedThreshold
        THEN LET target_speed ==
                     Min(max_speed, RoundDiv(max_speed * distance, SlowDownRadius))
                 vx == RoundDiv(dx * target_speed, distance)
                 vy == RoundDiv(dy * target_speed, distance)
                 vz == RoundDiv(dz * target_speed, distance)
             IN  [drone EXCEPT !.vx = vx, !.vy = vy, !.vz = vz,
                               !.x = drone.x + Displacement(vx),
                               !.y = drone.y + Displacement(vy),
                               !.z = drone.z + Displacement(vz)]
        ELSE [drone EXCEPT !.vx = 0, !.vy = 0, !.vz = 0,
                           !.x = drone.target_x, !.y = drone.target_y,
                           !.z = drone.target_z]

\* _update_flying that leaves the velocity alone once within the threshold
update_flying_coasts(drone, current_time) ==
    LET dx == drone.target_x - drone.x
        dy == drone.target_y - drone.y
        dz == drone.target_z - drone.z
        dist2 == dx * dx + dy * dy + dz * dz
        distance == Sqrt(dist2)
    IN  IF dist2 > LandedThreshold * LandedThreshold
        THEN LET target_speed ==
                     Min(max_speed, RoundDiv(max_speed * distance, SlowDownRadius))
                 vx == RoundDiv(dx * target_speed, distance)
                 vy == RoundDiv(dy * target_speed, distance)
                 vz == RoundDiv(dz * target_speed, distance)
             IN  [drone EXCEPT !.vx = vx, !.vy = vy, !.vz = vz,
                               !.x = drone.x + Displacement(vx),
                               !.y = drone.y + Displacement(vy),
                               !.z = drone.z + Displacement(vz)]
        ELSE drone

\* _update_flying
update_flying(drone, current_time) ==
    LET dx == drone.target_x - drone.x
        dy == drone.target_y - drone.y
        dz == drone.target_z - drone.z
        dist2 == dx * dx + dy * dy + dz * dz
        distance == Sqrt(dist2)
    IN  IF dist2 > LandedThreshold * LandedThreshold
        THEN LET target_speed ==
                     Min(max_speed, RoundDiv(max_speed * distance, SlowDownRadius))
                 vx == RoundDiv(dx * target_speed, distance)
                 vy == RoundDiv(dy * target_speed, distance)
                 vz == RoundDiv(dz * target_speed, distance)
             IN  [drone EXCEPT !.vx = vx, !.vy = vy, !.vz = vz,
                               !.x = drone.x + Displacement(vx),
                               !.y = drone.y + Displacement(vy),
                               !.z = drone.z + Displacement(vz)]
        ELSE [drone EXCEPT !.vx = 0, !.vy = 0, !.vz = 0]

\* _update_landing that snaps to the ground without leaving Landing
update_landing_stays(drone, current_time) ==
    LET target_z == 0
        dz == target_z - drone.z
    IN  IF Abs(dz) > LandedThreshold
        THEN LET vz == ClampSpeed(dz * 2)
             IN  [drone EXCEPT !.vz = vz, !.z = drone.z + Displacement(vz)]
        ELSE [drone EXCEPT !.z = 0, !.vz = 0]

\* _update_landing that brings the drone to rest on touchdown
update_landing_at_rest(drone, current_time) ==
    LET target_z == 0
        dz == target_z - drone.z
    IN  IF Abs(dz) > LandedThreshold
        THEN LET vz == ClampSpeed(dz * 2)
             IN  [drone EXCEPT !.vz = vz, !.z = drone.z + Displacement(vz)]
        ELSE [drone EXCEPT !.z = 0, !.vx = 0, !.vy = 0, !.vz = 0,
                           !.status = "idle"]

\* _update_landing
update_landing(drone, current_time) ==
    LET target_z == 0
        dz == target_z - drone.z
    IN  IF Abs(dz) > LandedThreshold
        THEN LET vz == ClampSpeed(dz * 2)
             IN  [drone EXCEPT !.vz = vz, !.z = drone.z + Displacement(vz)]
        ELSE [drone EXCEPT !.z = 0, !.vz = 0, !.status = "idle"]

\* battery drain without the clamp at 0
drain_battery_unclamped(drone) ==
    [drone EXCEPT !.battery = drone.battery - DrainPerTick]

\* _update_drones, line 94: battery drain clamped at 0
drain_battery(drone) ==
    [drone EXCEPT !.battery = Max(0, drone.battery - DrainPerTick)]

\* _update_drones, lines 97-102: dispatch on the status
update_phase(drone, current_time) ==
    IF drone.status = "takingOff" THEN update_takeoff(drone, current_time)
    ELSE IF drone.status = "flying" THEN update_flying(drone, current_time)
    ELSE IF drone.status = "landing" THEN update_landing(drone, current_time)
    ELSE drone

\* One draw of the six random.gauss perturbations of a tick.  The Gaussian
\* draws are modelled by a few samples at 0 and +-1 standard deviation.
NoNoise == [px |-> 0, py |-> 0, pz |-> 0, vx |-> 0, vy |-> 0, vz |-> 0]

NoiseSamples ==
    { NoNoise,
      [NoNoise EXCEPT !.pz = position_noise_std, !.vz = velocity_noise_std],
      [NoNoise EXCEPT !.pz = -position_noise_std, !.vx = -velocity_noise_std] }

\* _update_drones, lines 105-110
apply_noise(drone, n) ==
    [drone EXCEPT !.x = drone.x + n.px, !.y = drone.y + n.py, !.z = drone.z + n.pz,
                  !.vx = drone.vx + n.vx, !.vy = drone.vy + n.vy,
                  !.vz = drone.vz + n.vz]

\* _update_drones, lines 115-117: the position test of the error check
out_of_bounds(drone) ==
    \/ Abs(drone.x) > workspace_bounds
    \/ Abs(drone.y) > workspace_bounds
    \/ drone.z > max_height

\* _update_drones, lines 113-118
check_errors(drone) ==
    IF drone.battery <= 0 THEN [drone EXCEPT !.status = "error"]
    ELSE IF out_of_bounds(drone) THEN [drone EXCEPT !.status = "error"]
    ELSE drone

\* _update_drones: the body of the loop for one drone.  The statements run in
\* sequence, each on the record the previous one left.
update_drone(drone, current_time, n) ==
    CHOOSE checked \in
        { check_errors(noised) :
            noised \in { apply_noise(moved, n) :
                moved \in { update_phase(drained, current_time) :
                    drained \in { drain_battery(d) : d \in {drone} } } } } : TRUE

(***************************************************************************)
(* Formation positions.                                                    *)
(***************************************************************************)
\* parameters.get(key, default)
Get(parameters, key, default) ==
    IF key \in DOMAIN parameters THEN parameters[key] ELSE default

\* int(math.ceil(math.sqrt(count)))
CeilSqrt(count) ==
    CHOOSE c \in 0..count : c * c >= count /\ (c = 0 \/ (c - 1) * (c - 1) < count)

\* 1000 * math.cos / math.sin of an angle given in degrees
Cos1000(deg) ==
    CASE deg = 0 -> 1000 [] deg = 60 -> 500 [] deg = 90 -> 0 [] deg = 120 -> -500
      [] deg = 180 -> -1000 [] deg = 240 -> -500 [] deg = 270 -> 0 [] deg = 300 -> 500

Sin1000(deg) ==
    CASE deg = 0 -> 0 [] deg = 60 -> 866 [] deg = 90 -> 1000 [] deg = 120 -> 866
      [] deg = 180 -> 0 [] deg = 240 -> -866 [] deg = 270 -> -1000 [] deg = 300 -> -866

\* _calculate_formation_positions whose circle runs clockwise
calculate_formation_positions_clockwise(formation, count, parameters) ==
    IF formation = "circle" THEN
        LET radius == Get(parameters, "radius", DefaultRadius)
            height == Get(parameters, "height", DefaultHeight)
        IN  [k \in 1..count |->
                LET deg == (360 * (k - 1)) \div count
                IN  <<RoundDiv(radius * Cos1000(deg), 1000),
                      -RoundDiv(radius * Sin1000(deg), 1000), height>>]
    ELSE <<>>

\* _calculate_formation_positions that hovers the drones in place at the
\* default height when it does not know the formation
calculate_formation_positions_hover(formation, count, parameters) ==
    [k \in 1..count |-> <<0, 0, DefaultHeight>>]

\* _calculate_formation_positions; position i of the source is element i+1
calculate_formation_positions(formation, count, parameters) ==
    IF formation = "line" THEN
        LET spacing == Get(parameters, "spacing", DefaultSpacing)
        IN  [k \in 1..count |->
                <<RoundDiv((2 * (k - 1) - (count - 1)) * spacing, 2), 0, LineHeight>>]
    ELSE IF formation = "circle" THEN
        LET radius == Get(parameters, "radius", DefaultRadius)
            height == Get(parameters, "height", DefaultHeight)
        IN  [k \in 1..count |->
                LET deg == (360 * (k - 1)) \div count
                IN  <<RoundDiv(radius * Cos1000(deg), 1000),
                      RoundDiv(radius * Sin1000(deg), 1000), height>>]
    ELSE IF formation = "grid" THEN
        LET cols == CeilSqrt(count)
            spacing == Get(parameters, "spacing", DefaultSpacing)
            height == Get(parameters, "height", DefaultHeight)
        IN  [k \in 1..count |->
                LET row == (k - 1) \div cols
                    col == (k - 1) % cols
                IN  <<RoundDiv((2 * col - (cols - 1)) * spacing, 2),
                      RoundDiv((2 * row - ((count \div cols) - 1)) * spacing, 2),
                      height>>]
    ELSE IF formation = "vshape" THEN
        LET spacing == Get(parameters, "spacing", DefaultSpacing)
            height == Get(parameters, "height", DefaultHeight)
        IN  [k \in 1..count |->
                IF k - 1 = 0 THEN <<0, 0, height>>
                ELSE LET side == IF (k - 1) % 2 = 1 THEN 1 ELSE -1
                         row == k \div 2
                     IN  <<row * spacing, RoundDiv(side * row * spacing, 2), height>>]
    ELSE <<>>

(***************************************************************************)
(* Commands and queries.  The registry self.drones is a function from      *)
(* 1..n to DroneState, where the integer i stands for the identifier       *)
(* "d<i>"; dict iteration order is the order of the integers, because      *)
(* create_swarm inserts d1, d2, ... in that order.  Each command is an     *)
(* operator from the registry and the arguments to the returned value and  *)
(* the registry it leaves.                                                 *)
(***************************************************************************)
None == "None"

EmptyRegistry == [i \in {} |-> None]

\* create_swarm that gives every drone of the swarm the identifier d1
create_swarm_shared_id(reg, count, run_id) ==
    [ret |-> [k \in 1..count |-> 1],
     drones |-> [i \in (DOMAIN reg) \cup (1..Min(count, 1)) |->
                    IF i \in 1..count THEN NewDrone(i, run_id) ELSE reg[i]]]

\* create_swarm that starts from an empty registry
create_swarm_clears(reg, count, run_id) ==
    [ret |-> [k \in 1..count |-> k],
     drones |-> [i \in 1..count |-> NewDrone(i, run_id)]]

\* create_swarm
create_swarm(reg, count, run_id) ==
    [ret |-> [k \in 1..count |-> k],
     drones |-> [i \in (DOMAIN reg) \cup (1..count) |->
                    IF i \in 1..count THEN NewDrone(i, run_id) ELSE reg[i]]]

\* takeoff that refuses only the drones that are in the air
takeoff_unless_airborne(reg, drone_id, height, duration, time) ==
    IF drone_id \notin DOMAIN reg THEN [ret |-> FALSE, drones |-> reg]
    ELSE IF reg[drone_id].status \in {"takingOff", "flying", "landing"}
         THEN [ret |-> FALSE, drones |-> reg]
    ELSE [ret |-> TRUE,
          drones |-> [reg EXCEPT ![drone_id].status = "takingOff",
                                 ![drone_id].takeoff_height = height,
                                 ![drone_id].takeoff_duration = duration,
                                 ![drone_id].takeoff_start = time]]

\* takeoff without the test that the drone is Idle
takeoff_any_status(reg, drone_id, height, duration, time) ==
    IF drone_id \notin DOMAIN reg THEN [ret |-> FALSE, drones |-> reg]
    ELSE [ret |-> TRUE,
          drones |-> [reg EXCEPT ![drone_id].status = "takingOff",
                                 ![drone_id].takeoff_height = height,
                                 ![drone_id].takeoff_duration = duration,
                                 ![drone_id].takeoff_start = time]]

\* takeoff that registers a drone under an identifier it does not know
takeoff_registers(reg, drone_id, height, duration, time) ==
    LET known == [i \in (DOMAIN reg) \cup {drone_id} |->
                     IF i \in DOMAIN reg THEN reg[i] ELSE NewDrone(i, "")]
    IN  IF known[drone_id].status # "idle" THEN [ret |-> FALSE, drones |-> reg]
        ELSE [ret |-> TRUE,
              drones |-> [known EXCEPT ![drone_id].status = "takingOff",
                                       ![drone_id].takeoff_height = height,
                                       ![drone_id].takeoff_duration = duration,
                                       ![drone_id].takeoff_start = time]]

\* takeoff
takeoff(reg, drone_id, height, duration, time) ==
    IF drone_id \notin DOMAIN reg THEN [ret |-> FALSE, drones |-> reg]
    ELSE IF reg[drone_id].status # "idle" THEN [ret |-> FALSE, drones |-> reg]
    ELSE [ret |-> TRUE,
          drones |-> [reg EXCEPT ![drone_id].status = "takingOff",
                                 ![drone_id].takeoff_height = height,
                                 ![drone_id].takeoff_duration = duration,
                                 ![drone_id].takeoff_start = time]]

\* goto that accepts Flying drones only
goto_flying_only(reg, drone_id, x, y, z, speed) ==
    IF drone_id \notin DOMAIN reg THEN [ret |-> FALSE, drones |-> reg]
    ELSE IF reg[drone_id].status # "flying" THEN [ret |-> FALSE, drones |-> reg]
    ELSE [ret |-> TRUE,
          drones |-> [reg EXCEPT ![drone_id].target_x = x,
                                 ![drone_id].target_y = y,
                                 ![drone_id].target_z = z]]

\* goto that refuses a speed that is not positive
goto_positive_speed(reg, drone_id, x, y, z, speed) ==
    IF drone_id \notin DOMAIN reg THEN [ret |-> FALSE, drones |-> reg]
    ELSE IF reg[drone_id].status \notin {"flying", "takingOff"}
         THEN [ret |-> FALSE, drones |-> reg]
    ELSE IF speed <= 0 THEN [ret |-> FALSE, drones |-> reg]
    ELSE [ret |-> TRUE,
          drones |-> [reg EXCEPT ![drone_id].target_x = x,
                                 ![drone_id].target_y = y,
                                 ![drone_id].target_z = z]]

\* goto
goto(reg, drone_id, x, y, z, speed) ==
    IF drone_id \notin DOMAIN reg THEN [ret |-> FALSE, drones |-> reg]
    ELSE IF reg[drone_id].status \notin {"flying", "takingOff"}
         THEN [ret |-> FALSE, drones |-> reg]
    ELSE [ret |-> TRUE,
          drones |-> [reg EXCEPT ![drone_id].target_x = x,
                                 ![drone_id].target_y = y,
                                 ![drone_id].target_z = z]]

\* land that accepts every registered drone
land_any_status(reg, drone_id, time) ==
    IF drone_id \notin DOMAIN reg THEN [ret |-> FALSE, drones |-> reg]
    ELSE [ret |-> TRUE,
          drones |-> [reg EXCEPT ![drone_id].status = "landing"]]

\* land that refuses Idle drones only
land_unless_idle(reg, drone_id, time) ==
    IF drone_id \notin DOMAIN reg THEN [ret |-> FALSE, drones |-> reg]
    ELSE IF reg[drone_id].status = "idle" THEN [ret |-> FALSE, drones |-> reg]
    ELSE [ret |-> TRUE, drones |-> [reg EXCEPT ![drone_id].status = "landing"]]

\* land
land(reg, drone_id, time) ==
    IF drone_id \notin DOMAIN reg THEN [ret |-> FALSE, drones |-> reg]
    ELSE IF reg[drone_id].status \notin {"flying", "takingOff"}
         THEN [ret |-> FALSE, drones |-> reg]
    ELSE [ret |-> TRUE,
          drones |-> [reg EXCEPT ![drone_id].status = "landing"]]

\* the identifiers of the Flying drones, in registry iteration order
RECURSIVE FlyingFrom(_, _)
FlyingFrom(reg, i) ==
    IF i \notin DOMAIN reg THEN <<>>
    ELSE (IF reg[i].status = "flying" THEN <<i>> ELSE <<>>) \o FlyingFrom(reg, i + 1)

flying_drones(reg) == FlyingFrom(reg, 1)

\* set_formation that also retargets the drones that are TakingOff
set_formation_airborne(reg, formation, parameters) ==
    LET Airborne(i) == reg[i].status \in {"flying", "takingOff"}
        ids == {i \in DOMAIN reg : Airborne(i)}
        Index(id) == Cardinality({j \in ids : j <= id})
    IN  IF ids = {} THEN [ret |-> FALSE, drones |-> reg]
        ELSE LET positions ==
                     calculate_formation_positions(formation, Cardinality(ids), parameters)
             IN  [ret |-> TRUE,
                  drones |-> [id \in DOMAIN reg |->
                      IF id \in ids /\ Index(id) <= Len(positions)
                      THEN [reg[id] EXCEPT !.target_x = positions[Index(id)][1],
                                           !.target_y = positions[Index(id)][2],
                                           !.target_z = positions[Index(id)][3]]
                      ELSE reg[id]]]

\* set_formation
set_formation(reg, formation, parameters) ==
    LET flying == flying_drones(reg)
    IN  IF flying = <<>> THEN [ret |-> FALSE, drones |-> reg]
        ELSE LET positions ==
                     calculate_formation_positions(formation, Len(flying), parameters)
                 Index(id) == CHOOSE k \in 1..Len(flying) : flying[k] = id
             IN  [ret |-> TRUE,
                  drones |-> [id \in DOMAIN reg |->
                      IF reg[id].status = "flying" /\ Index(id) <= Len(positions)
                      THEN [reg[id] EXCEPT !.target_x = positions[Index(id)][1],
                                           !.target_y = positions[Index(id)][2],
                                           !.target_z = positions[Index(id)][3]]
                      ELSE reg[id]]]

\* emergency_stop that leaves drones in Error alone
emergency_stop_keeps_error(reg) ==
    [id \in DOMAIN reg |->
        IF reg[id].status = "error" THEN reg[id]
        ELSE [reg[id] EXCEPT !.vx = 0, !.vy = 0, !.vz = 0, !.status = "idle"]]

\* emergency_stop
emergency_stop(reg) ==
    [id \in DOMAIN reg |->
        [reg[id] EXCEPT !.vx = 0, !.vy = 0, !.vz = 0, !.status = "idle"]]

\* reset that clears the logs but not the registry
reset_keeps_drones(reg) == reg

\* reset: self.drones.clear()
reset(reg) == EmptyRegistry

\* the dictionary that get_drone_state and get_all_states build for a drone
StateView(drone) ==
    [id |-> drone.id, x |-> drone.x, y |-> drone.y, z |-> drone.z,
     vx |-> drone.vx, vy |-> drone.vy, vz |-> drone.vz,
     battery |-> drone.battery, status |-> drone.status]

\* get_drone_state
get_drone_state(reg, drone_id) ==
    IF drone_id \notin DOMAIN reg THEN None ELSE StateView(reg[drone_id])

\* get_all_states
get_all_states(reg) == [id \in DOMAIN reg |-> StateView(reg[id])]

\* _update_drones: every drone of the registry, each with its own noise draw
update_drones(reg, current_time, noise) ==
    [id \in DOMAIN reg |-> update_drone(reg[id], current_time, noise[id])]

(***************************************************************************)
(* SimpleCollisionAvoidance.  A point is a tuple <<x, y, z>> in cm.  The   *)
(* planner's operations are pure: plan_path returns either the path or the *)
(* RecursionError that the interpreter raises when _find_detour_path calls *)
(* itself more than RecursionLimit levels deep.                            *)
(***************************************************************************)
safety_radius == 30

RecursionLimit == 5

\* float('inf'), in mm
Infinity == 1000000

detour_distance == (safety_radius * 3) \div 2

Minus(a, b) == <<a[1] - b[1], a[2] - b[2], a[3] - b[3]>>

Dot(a, b) == a[1] * b[1] + a[2] * b[2] + a[3] * b[3]

NormSq(a) == Dot(a, a)

\* _cross_product
cross_product(a, b) ==
    <<a[2] * b[3] - a[3] * b[2],
      a[3] * b[1] - a[1] * b[3],
      a[1] * b[2] - a[2] * b[1]>>

\* max(0, min(1, dot / length_sq)) * length_sq
ClampProjection(dot, length_sq) == Max(0, Min(length_sq, dot))

\* _point_to_line_distance, in mm
point_to_line_distance(line_start, line_end, point) ==
    LET line_vec == Minus(line_end, line_start)
        point_vec == Minus(point, line_start)
        line_length_sq == NormSq(line_vec)
    IN  IF line_length_sq = 0 THEN Sqrt(100 * NormSq(point_vec))
        ELSE LET t == ClampProjection(Dot(point_vec, line_vec), line_length_sq)
                 closest_point == [i \in 1..3 |->
                     10 * line_start[i] + RoundDiv(10 * t * line_vec[i], line_length_sq)]
                 d == [i \in 1..3 |-> 10 * point[i] - closest_point[i]]
             IN  Sqrt(NormSq(d))

\* _is_path_clear that also rejects an obstacle at exactly the safety radius
is_path_clear_strict(start, goal, obstacles) ==
    \A k \in 1..Len(obstacles) :
        ~(point_to_line_distance(start, goal, obstacles[k]) <= 10 * safety_radius)

\* _is_path_clear
is_path_clear(start, goal, obstacles) ==
    \A k \in 1..Len(obstacles) :
        ~(point_to_line_distance(start, goal, obstacles[k]) < 10 * safety_radius)

\* the loop of _find_detour_path that keeps the first obstacle of least
\* distance to the segment
closest_obstacle(start, goal, obstacles) ==
    LET distance(k) == point_to_line_distance(start, goal, obstacles[k])
        first == CHOOSE k \in 1..Len(obstacles) :
                    \A j \in 1..Len(obstacles) :
                        /\ distance(k) <= distance(j)
                        /\ j < k => distance(k) < distance(j)
    IN  obstacles[first]

\* _calculate_detour_midpoint that places the detour at the safety radius,
\* without the margin
calculate_detour_midpoint_no_margin(start, goal, obstacle) ==
    LET goal_vec == Minus(goal, start)
        obs_vec == Minus(obstacle, start)
        goal_length_sq == NormSq(goal_vec)
    IN  IF goal_length_sq = 0 THEN start
        ELSE LET t == ClampProjection(Dot(obs_vec, goal_vec), goal_length_sq)
                 projected == [i \in 1..3 |->
                     start[i] + RoundDiv(t * goal_vec[i], goal_length_sq)]
                 offset_vec == Minus(obstacle, projected)
                 cross == cross_product(goal_vec, offset_vec)
                 length == Sqrt(NormSq(cross))
                 perpendicular ==
                     IF length = 0
                     THEN (IF goal_vec[3] = 0 THEN <<0, 0, 1>> ELSE <<1, 0, 0>>)
                     ELSE cross
                 perpendicular_length == IF length = 0 THEN 1 ELSE length
             IN  [i \in 1..3 |->
                     projected[i]
                       + RoundDiv(safety_radius * perpendicular[i], perpendicular_length)]

\* _calculate_detour_midpoint
calculate_detour_midpoint(start, goal, obstacle) ==
    LET goal_vec == Minus(goal, start)
        obs_vec == Minus(obstacle, start)
        goal_length_sq == NormSq(goal_vec)
    IN  IF goal_length_sq = 0 THEN start
        ELSE LET t == ClampProjection(Dot(obs_vec, goal_vec), goal_length_sq)
                 projected == [i \in 1..3 |->
                     start[i] + RoundDiv(t * goal_vec[i], goal_length_sq)]
                 offset_vec == Minus(obstacle, projected)
                 cross == cross_product(goal_vec, offset_vec)
                 length == Sqrt(NormSq(cross))
                 perpendicular ==
                     IF length = 0
                     THEN (IF goal_vec[3] = 0 THEN <<0, 0, 1>> ELSE <<1, 0, 0>>)
                     ELSE cross
                 perpendicular_length == IF length = 0 THEN 1 ELSE length
             IN  [i \in 1..3 |->
                     projected[i]
                       + RoundDiv(detour_distance * perpendicular[i], perpendicular_length)]

\* what a call of the planner gives back: a path, or RecursionError raised
Returned(path) == [raised |-> FALSE, path |-> path]

RecursionError == [raised |-> TRUE, path |-> <<>>]

\* detour1[:-1] + detour2
Combine(detour1, detour2) ==
    SubSeq(detour1, 1, Len(detour1) - 1) \o detour2

\* _find_detour_path that returns the detour without testing its segments
find_detour_path_unchecked(start, goal, obstacles, depth) ==
    IF obstacles = <<>> THEN Returned(<<start, goal>>)
    ELSE Returned(<<start,
                    calculate_detour_midpoint(start, goal,
                        closest_obstacle(start, goal, obstacles)),
                    goal>>)

\* _find_detour_path that returns only the part of the detour after the
\* midpoint when a half of the detour is not clear
find_detour_path_from_midpoint(start, goal, obstacles, depth) ==
    IF obstacles = <<>> THEN Returned(<<start, goal>>)
    ELSE LET midpoint == calculate_detour_midpoint(start, goal,
                             closest_obstacle(start, goal, obstacles))
         IN  IF /\ is_path_clear(start, midpoint, obstacles)
                /\ is_path_clear(midpoint, goal, obstacles)
             THEN Returned(<<start, midpoint, goal>>)
             ELSE Returned(<<midpoint, goal>>)

\* _find_detour_path; depth is the number of its calls on the stack
RECURSIVE find_detour_path(_, _, _, _)
find_detour_path(start, goal, obstacles, depth) ==
    IF depth > RecursionLimit THEN RecursionError
    ELSE IF obstacles = <<>> THEN Returned(<<start, goal>>)
    ELSE LET midpoint == calculate_detour_midpoint(start, goal,
                             closest_obstacle(start, goal, obstacles))
             path1_clear == is_path_clear(start, midpoint, obstacles)
             path2_clear == is_path_clear(midpoint, goal, obstacles)
         IN  IF path1_clear /\ path2_clear
             THEN Returned(<<start, midpoint, goal>>)
             ELSE LET detour1 ==
                          IF ~path1_clear
                          THEN find_detour_path(start, midpoint, obstacles, depth + 1)
                          ELSE Returned(<<start, midpoint>>)
                  IN  IF detour1.raised THEN RecursionError
                      ELSE LET detour2 ==
                                   IF ~path2_clear
                                   THEN find_detour_path(midpoint, goal, obstacles, depth + 1)
                                   ELSE Returned(<<midpoint, goal>>)
                           IN  IF detour2.raised THEN RecursionError
                               ELSE Returned(Combine(detour1.path, detour2.path))

\* plan_path
plan_path(start, goal, obstacles) ==
    IF is_path_clear(start, goal, obstacles) THEN Returned(<<start, goal>>)
    ELSE find_detour_path(start, goal, obstacles, 1)

\* the sum of the lengths of the segments of a path, in mm
RECURSIVE path_length(_)
path_length(path) ==
    IF Len(path) < 2 THEN 0
    ELSE Sqrt(100 * NormSq(Minus(path[2], path[1]))) + path_length(Tail(path))

\* the least distance of an obstacle to a segment of the path, in mm
min_separation(path, obstacles) ==
    LET distances == {point_to_line_distance(path[i], path[i + 1], obstacles[k]) :
                         i \in 1..(Len(path) - 1), k \in 1..Len(obstacles)}
    IN  IF distances = {} THEN Infinity
        ELSE CHOOSE m \in distances : \A d \in distances : m <= d

\* validate_path whose test is min_separation > safety_radius
validate_path_strict(path, obstacles) ==
    IF Len(path) < 2
    THEN [valid |-> FALSE, reason |-> "Path too short", pathLength |-> 0,
          minSeparation |-> Infinity, success |-> FALSE]
    ELSE LET safe == min_separation(path, obstacles) > 10 * safety_radius
         IN  [valid |-> safe, pathLength |-> path_length(path),
              minSeparation |-> min_separation(path, obstacles),
              success |-> safe, waypoints |-> Len(path)]

\* validate_path
validate_path(path, obstacles) ==
    IF Len(path) < 2
    THEN [valid |-> FALSE, reason |-> "Path too short", pathLength |-> 0,
          minSeparation |-> Infinity, success |-> FALSE]
    ELSE LET safe == min_separation(path, obstacles) >= 10 * safety_radius
         IN  [valid |-> safe, pathLength |-> path_length(path),
              minSeparation |-> min_separation(path, obstacles),
              success |-> safe, waypoints |-> Len(path)]

\* no request has been made of the planner
NoPlan ==
    [pc |-> "idle", start |-> <<0, 0, 0>>, goal |-> <<0, 0, 0>>, obstacles |-> <<>>,
     result |-> Returned(<<>>), path |-> <<>>, report |-> validate_path(<<>>, <<>>)]

(***************************************************************************)
(* No formation has been solved, and no experiment has been run.           *)
(***************************************************************************)
NoParameters == [key \in {} |-> 0]

NoFormation ==
    [pc |-> "idle", name |-> "", count |-> 0, parameters |-> NoParameters,
     positions |-> <<>>]

\* pc is the position in the program of the script (0: none was started),
\* waiting, wake and slept describe its asyncio.sleep, ticks counts the passes
\* of the tick loop completed since that sleep began
NoExperiment ==
    [pc |-> 0, program |-> <<>>, waiting |-> FALSE, wake |-> 0, slept |-> 0,
     ticks |-> 0, request |-> NoParameters, result |-> NoParameters]

(***************************************************************************)
(* The tick loop between two passes: no coroutine holds the event loop.    *)
(***************************************************************************)
Sleeping ==
    [holder |-> "none", pending |-> <<>>, branch |-> "none", current_time |-> 0,
     after |-> [kind |-> "none", at |-> 0]]

(***************************************************************************)
(* Inputs of the operations.                                               *)
(***************************************************************************)
DroneIds == 1..MaxDrones
Counts == 0..MaxDrones
RunIds == {"run1"}
TakeoffArgs == {<<60, 100>>, <<1000, 0>>}
Targets == {<<100, 0, 60>>}
Speeds == {500}
Formations == {"circle", "vshape", "spiral"}
Parameters == {[radius |-> 200, spacing |-> 400, height |-> 60]}

\* Ticks a swarm may have idled through, noise-free, before the model starts
\* observing it: 19998 ticks leave two ticks of battery.
Ages == {19998}

Aged(reg, ticks) ==
    [id \in DOMAIN reg |->
        [reg[id] EXCEPT !.battery = Max(0, FullBattery - ticks * DrainPerTick)]]

(***************************************************************************)
(* The state machine.  now is time.time(); issued counts the commands      *)
(* issued so far and noisy the non-zero perturbations drawn so far.        *)
(***************************************************************************)
Init ==
    /\ now = 0
    /\ issued = 0
    /\ noisy = 0
    /\ plan = NoPlan
    /\ loop = Sleeping
    /\ experiment = NoExperiment
    /\ solver = NoFormation
    /\ \/ drones = EmptyRegistry
       \/ \E count \in 1..MaxDrones, run_id \in RunIds, age \in Ages :
             drones = Aged(create_swarm(EmptyRegistry, count, run_id).drones, age)

CreateSwarm ==
    \E count \in Counts, run_id \in RunIds :
        LET r == create_swarm(drones, count, run_id)
        IN  /\ drones' = r.drones
            /\ issued < MaxCommands
            /\ issued' = issued + 1
            /\ UNCHANGED <<now, noisy, plan, loop, experiment, solver>>

Takeoff ==
    \E drone_id \in DroneIds, a \in TakeoffArgs :
        LET r == takeoff(drones, drone_id, a[1], a[2], now)
        IN  /\ drones' = r.drones
            /\ issued < MaxCommands
            /\ issued' = issued + 1
            /\ UNCHANGED <<now, noisy, plan, loop, experiment, solver>>

Goto ==
    \E drone_id \in DroneIds, target \in Targets, speed \in Speeds :
        LET r == goto(drones, drone_id, target[1], target[2], target[3], speed)
        IN  /\ drones' = r.drones
            /\ issued < MaxCommands
            /\ issued' = issued + 1
            /\ UNCHANGED <<now, noisy, plan, loop, experiment, solver>>

Land ==
    \E drone_id \in DroneIds :
        LET r == land(drones, drone_id, now)
        IN  /\ drones' = r.drones
            /\ issued < MaxCommands
            /\ issued' = issued + 1
            /\ UNCHANGED <<now, noisy, plan, loop, experiment, solver>>

SetFormation ==
    \E formation \in Formations, parameters \in Parameters :
        LET r == set_formation(drones, formation, parameters)
        IN  /\ drones' = r.drones
            /\ issued < MaxCommands
            /\ issued' = issued + 1
            /\ UNCHANGED <<now, noisy, plan, loop, experiment, solver>>

EmergencyStop ==
    /\ drones' = emergency_stop(drones)
    /\ issued < MaxCommands
    /\ issued' = issued + 1
    /\ UNCHANGED <<now, noisy, plan, loop, experiment, solver>>

Reset ==
    /\ drones' = reset(drones)
    /\ issued < MaxCommands
    /\ issued' = issued + 1
    /\ UNCHANGED <<now, noisy, plan, loop, experiment, solver>>

\* One iteration of _simulation_loop: _update_drones at time.time() = now,
\* then the sleep that lets one tick period pass.
Tick ==
    /\ now < MaxTicks * dt
    /\ \E noise \in [DOMAIN drones -> NoiseSamples] :
          LET perturbed == {id \in DOMAIN drones : noise[id] # NoNoise}
          IN  /\ noisy + Cardinality(perturbed) <= MaxNoisy
              /\ drones' = update_drones(drones, now, noise)
              /\ noisy' = noisy + Cardinality(perturbed)
    /\ now' = now + dt
    /\ UNCHANGED <<issued, plan, loop, experiment, solver>>

\* A tick whose noise draws are all zero, for the noise-free behaviours
QuietTick ==
    /\ now < LiveTicks * dt
    /\ drones' = update_drones(drones, now, [id \in DOMAIN drones |-> NoNoise])
    /\ now' = now + dt
    /\ UNCHANGED <<issued, noisy, plan, loop, experiment, solver>>

Next ==
    \/ CreateSwarm
    \/ Takeoff
    \/ Goto
    \/ Land
    \/ SetFormation
    \/ EmergencyStop
    \/ Reset
    \/ Tick

Spec == Init /\ [][Next]_vars

(***************************************************************************)
(* Requests to the planner: plan_path for a start, a goal and a list of    *)
(* obstacles, then validate_path for the planned path, a prefix of it or   *)
(* the direct path.                                                        *)
(***************************************************************************)
MaxObstacles == 2

Starts == {<<0, 0, 50>>}

\* along x, start = goal, diagonal in the plane, straight up, climbing along x
Goals ==
    {<<200, 0, 50>>, <<0, 0, 50>>, <<100, 100, 50>>, <<0, 0, 150>>, <<100, 0, 150>>}

\* on the segment, at its detour point, near the start, at exactly the
\* safety radius, beside the first half of the detour, off the segment,
\* above the start, on the diagonal, on the segment a little more than the
\* safety radius from the start, on the climbing segment
ObstaclePoints ==
    {<<100, 0, 50>>, <<100, 0, 95>>, <<10, 0, 50>>, <<100, 30, 50>>,
     <<50, 0, 75>>, <<100, 10, 50>>, <<0, 0, 100>>, <<50, 50, 50>>,
     <<40, 0, 50>>, <<50, 0, 100>>}

ObstacleLists ==
    UNION {[1..n -> ObstaclePoints] : n \in 0..MaxObstacles}

CandidatePaths(p) ==
    {SubSeq(p.result.path, 1, k) : k \in 0..Len(p.result.path)}
        \cup {<<p.start, p.goal>>}

InitPlan ==
    /\ now = 0
    /\ issued = 0
    /\ noisy = 0
    /\ drones = EmptyRegistry
    /\ plan = NoPlan
    /\ loop = Sleeping
    /\ experiment = NoExperiment
    /\ solver = NoFormation

PlanPath ==
    /\ plan.pc = "idle"
    /\ \E start \in Starts, goal \in Goals, obstacles \in ObstacleLists :
          plan' = [plan EXCEPT !.pc = "planned",
                               !.start = start,
                               !.goal = goal,
                               !.obstacles = obstacles,
                               !.result = plan_path(start, goal, obstacles)]
    /\ UNCHANGED <<drones, now, issued, noisy, loop, experiment, solver>>

ValidatePath ==
    /\ plan.pc = "planned"
    /\ \E path \in CandidatePaths(plan) :
          plan' = [plan EXCEPT !.pc = "validated",
                               !.path = path,
                               !.report = validate_path(path, plan.obstacles)]
    /\ UNCHANGED <<drones, now, issued, noisy, loop, experiment, solver>>

NextPlan ==
    \/ PlanPath
    \/ ValidatePath

PlanSpec == InitPlan /\ [][NextPlan]_vars

(***************************************************************************)
(* Noise-free flight of one drone: a swarm of one drone, new or aged,      *)
(* takeoff and land commands, and the tick loop running (weak fairness of  *)
(* the tick: _simulation_loop runs one tick every period while it runs).   *)
(***************************************************************************)
InitLand ==
    /\ now = 0
    /\ issued = 0
    /\ noisy = 0
    /\ plan = NoPlan
    /\ loop = Sleeping
    /\ experiment = NoExperiment
    /\ solver = NoFormation
    /\ \E run_id \in RunIds, age \in {0} \cup Ages :
          drones = Aged(create_swarm(EmptyRegistry, 1, run_id).drones, age)

NextLand ==
    \/ Takeoff
    \/ Land
    \/ QuietTick

LandSpec == InitLand /\ [][NextLand]_vars /\ WF_vars(QuietTick)

(***************************************************************************)
(* Arguments the command contracts are checked against in every reachable  *)
(* registry: identifiers in and out of the registry, and heights,          *)
(* durations, targets and speeds beyond the ones the actions issue.        *)
(***************************************************************************)
AnyIds == 0..(MaxDrones + 1)
AnyHeights == {-100, 0, 60, 1000, 1100}
AnyDurations == {-50, 0, 100, 2000}
AnyTargets == {<<0, 0, 0>>, <<100, 0, 60>>, <<-2500, 300, 1200>>}
AnySpeeds == {0, 500, 5000}

Known(id) == id \in DOMAIN drones

\* position, velocity, battery and target of two drone records agree
SameMotionState(a, b) ==
    /\ a.x = b.x /\ a.y = b.y /\ a.z = b.z
    /\ a.vx = b.vx /\ a.vy = b.vy /\ a.vz = b.vz
    /\ a.battery = b.battery
    /\ a.target_x = b.target_x /\ a.target_y = b.target_y /\ a.target_z = b.target_z

\* every drone other than id is the same in both registries
OthersUnchanged(reg, new, id) ==
    /\ DOMAIN new = DOMAIN reg
    /\ \A other \in DOMAIN reg : other # id => new[other] = reg[other]

(***************************************************************************)
(* C1: takeoff(id, height, duration) returns true exactly when id is in    *)
(* the registry and that drone is Idle; it then sets TakingOff and records *)
(* height, duration and the start time, leaving position, velocity,        *)
(* battery, target and every other drone as they were; otherwise it        *)
(* returns false and changes nothing.                                      *)
(***************************************************************************)
C1_TakeoffContract ==
    \A id \in AnyIds, height \in AnyHeights, duration \in AnyDurations :
        LET r == takeoff(drones, id, height, duration, now)
            ok == Known(id) /\ drones[id].status = "idle"
        IN  /\ r.ret = ok
            /\ ok => /\ r.drones[id].status = "takingOff"
                     /\ r.drones[id].takeoff_height = height
                     /\ r.drones[id].takeoff_duration = duration
                     /\ r.drones[id].takeoff_start = now
                     /\ SameMotionState(r.drones[id], drones[id])
                     /\ OthersUnchanged(drones, r.drones, id)
            /\ ~ok => r.drones = drones

\* a drone on which takeoff has just succeeded
C1_Witness ==
    \E id \in DOMAIN drones :
        /\ drones[id].status = "takingOff"
        /\ drones[id].takeoff_start = now
        /\ drones[id].takeoff_height = 60
        /\ issued > 0

(***************************************************************************)
(* C2: goto(id, x, y, z, speed) returns true exactly when the drone is     *)
(* Flying or TakingOff, and then sets the target to (x, y, z) and leaves   *)
(* the status; for any other status, or an unknown id, it returns false    *)
(* and leaves status and target unchanged.                                 *)
(***************************************************************************)
C2_GotoContract ==
    \A id \in AnyIds, target \in AnyTargets, speed \in AnySpeeds :
        LET r == goto(drones, id, target[1], target[2], target[3], speed)
            ok == Known(id) /\ drones[id].status \in {"flying", "takingOff"}
        IN  /\ r.ret = ok
            /\ ok => /\ r.drones[id].target_x = target[1]
                     /\ r.drones[id].target_y = target[2]
                     /\ r.drones[id].target_z = target[3]
                     /\ r.drones[id].status = drones[id].status
                     /\ OthersUnchanged(drones, r.drones, id)
            /\ ~ok => r.drones = drones

\* a drone in flight whose target a goto has set, beside an Idle drone
C2_Witness ==
    /\ \E id \in DOMAIN drones :
          /\ drones[id].status \in {"flying", "takingOff"}
          /\ <<drones[id].target_x, drones[id].target_y, drones[id].target_z>> \in Targets
    /\ \E id \in DOMAIN drones : drones[id].status = "idle"

(***************************************************************************)
(* C3: land(id) returns true exactly when the drone is Flying or           *)
(* TakingOff, and then sets Landing; for Idle, Landing and Error drones,   *)
(* or an unknown id, it returns false and changes nothing.                 *)
(***************************************************************************)
C3_LandContract ==
    \A id \in AnyIds :
        LET r == land(drones, id, now)
            ok == Known(id) /\ drones[id].status \in {"flying", "takingOff"}
        IN  /\ r.ret = ok
            /\ ok => /\ r.drones[id].status = "landing"
                     /\ SameMotionState(r.drones[id], drones[id])
                     /\ OthersUnchanged(drones, r.drones, id)
            /\ ~ok => r.drones = drones

\* a drone that land has put in Landing in the air, beside an Idle drone
C3_Witness ==
    /\ \E id \in DOMAIN drones :
          drones[id].status = "landing" /\ drones[id].z > LandedThreshold
    /\ \E id \in DOMAIN drones : drones[id].status = "idle"

(***************************************************************************)
(* C4: emergency_stop leaves every drone of the registry Idle with         *)
(* velocity (0, 0, 0), whatever the statuses were, and removes or adds no  *)
(* drone.                                                                  *)
(***************************************************************************)
C4_EmergencyStopAllIdle ==
    LET r == emergency_stop(drones)
    IN  /\ DOMAIN r = DOMAIN drones
        /\ \A id \in DOMAIN r :
              /\ r[id].status = "idle"
              /\ r[id].vx = 0 /\ r[id].vy = 0 /\ r[id].vz = 0

\* after an emergency stop: every drone Idle and still, one of them stopped in
\* the air with an empty battery (it was in Error), another on the ground
C4_Witness ==
    /\ \A id \in DOMAIN drones :
          /\ drones[id].status = "idle"
          /\ drones[id].vx = 0 /\ drones[id].vy = 0 /\ drones[id].vz = 0
    /\ \E a, b \in DOMAIN drones :
          /\ drones[a].z > LandedThreshold /\ drones[a].battery = 0
          /\ drones[b].z <= LandedThreshold

(***************************************************************************)
(* Kinds of step, read off the two states of a step.                       *)
(***************************************************************************)
IsTick == now' # now

IsReset == drones' = reset(drones)

IsCreate ==
    \E count \in Counts, run_id \in RunIds :
        drones' = create_swarm(drones, count, run_id).drones

IsEmergencyStop == drones' = emergency_stop(drones)

\* every drone that is in Error before the step is in Error after it
ErrorKept ==
    \A id \in DOMAIN drones :
        drones[id].status = "error" =>
            id \in DOMAIN drones' /\ drones'[id].status = "error"

(***************************************************************************)
(* C5 as stated: once a drone is in Error it stays in Error over every     *)
(* tick and every command (takeoff, goto, land, set_formation,             *)
(* emergency_stop), until the registry is reset or the swarm re-created.   *)
(***************************************************************************)
C5_ErrorTerminal == [][IsReset \/ IsCreate \/ ErrorKept]_vars

(***************************************************************************)
(* C5 amended: once a drone is in Error it stays in Error over every tick  *)
(* and every takeoff, goto, land and set_formation; only emergency_stop    *)
(* (which forces it to Idle), reset and create_swarm end the Error.        *)
(***************************************************************************)
C5_ErrorTerminalButStop ==
    [][IsReset \/ IsCreate \/ IsEmergencyStop \/ ErrorKept]_vars

\* a drone whose battery ran out at the second tick and that a third tick has
\* left in Error
C5_Witness ==
    \E id \in DOMAIN drones :
        /\ drones[id].status = "error"
        /\ drones[id].battery = 0
        /\ now >= 3 * dt

(***************************************************************************)
(* C6: over ticks and commands, without a reset or a re-creation of the    *)
(* swarm, every battery stays in [0, 100 %] and never increases; a tick    *)
(* subtracts drain_rate*dt clamped at 0, and a drone whose battery is 0 at *)
(* the end of a tick is in Error, whatever its status was.                 *)
(***************************************************************************)
C6_BatteryRange ==
    \A id \in DOMAIN drones :
        drones[id].battery >= 0 /\ drones[id].battery <= FullBattery

C6_BatteryStep ==
    \A id \in DOMAIN drones :
        /\ id \in DOMAIN drones'
        /\ drones'[id].battery <= drones[id].battery
        /\ IsTick =>
              /\ drones'[id].battery = Max(0, drones[id].battery - DrainPerTick)
              /\ drones'[id].battery = 0 => drones'[id].status = "error"

C6_Battery == [] C6_BatteryRange /\ [][IsReset \/ IsCreate \/ C6_BatteryStep]_vars

\* a drone that a tick has drained to 0 and put in Error
C6_Witness ==
    \E id \in DOMAIN drones :
        /\ drones[id].battery = 0
        /\ drones[id].status = "error"
        /\ now > 0

(***************************************************************************)
(* C7: at the end of every tick, every drone whose position violates       *)
(* |x| <= workspace bound, |y| <= workspace bound or 0 <= z <= max height  *)
(* is in Error.                                                            *)
(***************************************************************************)
C7_BoundsForceError ==
    [][IsTick =>
         \A id \in DOMAIN drones' :
            (\/ Abs(drones'[id].x) > workspace_bounds
             \/ Abs(drones'[id].y) > workspace_bounds
             \/ drones'[id].z < 0
             \/ drones'[id].z > max_height) => drones'[id].status = "error"]_vars

(***************************************************************************)
(* C8.  A tick finds the takeoff of drone id complete when the time since  *)
(* the takeoff command is at least the commanded duration.                 *)
(***************************************************************************)
TakeoffDue(id) ==
    /\ IsTick
    /\ drones[id].status = "takingOff"
    /\ now - drones[id].takeoff_start >= drones[id].takeoff_duration

TakeoffPending(id) ==
    /\ IsTick
    /\ drones[id].status = "takingOff"
    /\ now - drones[id].takeoff_start < drones[id].takeoff_duration

\* z is the commanded height and vz is 0, up to the noise of one tick
SnappedToHeight(id) ==
    /\ Abs(drones'[id].z - drones[id].takeoff_height) <= position_noise_std
    /\ Abs(drones'[id].vz) <= velocity_noise_std

\* the error check of the tick fires on the drone as the tick leaves it
FailsErrorCheck(id) == drones'[id].battery <= 0 \/ out_of_bounds(drones'[id])

(***************************************************************************)
(* C8 as stated: the tick that finds the takeoff complete leaves the drone *)
(* Flying, with z at the commanded height and vz zero (up to noise).       *)
(***************************************************************************)
C8_TakeoffCompletes ==
    [][\A id \in DOMAIN drones :
          TakeoffDue(id) =>
              /\ id \in DOMAIN drones'
              /\ drones'[id].status = "flying"
              /\ SnappedToHeight(id)]_vars

(***************************************************************************)
(* C8 amended: the tick that finds the takeoff complete snaps z to the     *)
(* commanded height and zeroes vz (up to noise) and leaves the drone       *)
(* Flying, unless its battery is then empty or its position out of bounds, *)
(* in which case it leaves it in Error; an earlier tick leaves the drone   *)
(* TakingOff, or in Error in the same two cases.                           *)
(***************************************************************************)
C8_TakeoffCompletesOrError ==
    [][\A id \in DOMAIN drones :
          /\ TakeoffDue(id) =>
                /\ id \in DOMAIN drones'
                /\ SnappedToHeight(id)
                /\ drones'[id].status =
                      IF FailsErrorCheck(id) THEN "error" ELSE "flying"
          /\ TakeoffPending(id) =>
                /\ id \in DOMAIN drones'
                /\ drones'[id].status =
                      IF FailsErrorCheck(id) THEN "error" ELSE "takingOff"]_vars

\* a drone that the last tick took from TakingOff to Flying at its height
C8_Witness ==
    \E id \in DOMAIN drones :
        /\ drones[id].status = "flying"
        /\ drones[id].takeoff_height > 0
        /\ Abs(drones[id].z - drones[id].takeoff_height) <= position_noise_std
        /\ (now - dt) - drones[id].takeoff_start >= drones[id].takeoff_duration
        /\ (now - 2 * dt) - drones[id].takeoff_start < drones[id].takeoff_duration

(***************************************************************************)
(* C10: reset empties the registry whatever it contained: get_all_states   *)
(* is then empty, get_drone_state is absent for every id, and takeoff,     *)
(* goto and land return false and change nothing; an empty registry stays  *)
(* empty until create_swarm is called.                                     *)
(***************************************************************************)
C10_AfterReset ==
    LET r == reset(drones)
    IN  /\ DOMAIN r = {}
        /\ DOMAIN get_all_states(r) = {}
        /\ \A id \in AnyIds :
              /\ get_drone_state(r, id) = None
              /\ \A height \in AnyHeights, duration \in AnyDurations :
                    takeoff(r, id, height, duration, now) = [ret |-> FALSE, drones |-> r]
              /\ \A target \in AnyTargets, speed \in AnySpeeds :
                    goto(r, id, target[1], target[2], target[3], speed)
                        = [ret |-> FALSE, drones |-> r]
              /\ land(r, id, now) = [ret |-> FALSE, drones |-> r]

C10_ResetContract ==
    /\ [] C10_AfterReset
    /\ [][DOMAIN drones = {} => (DOMAIN drones' = {} \/ IsCreate)]_vars

\* an empty registry after drones have been ticked with noise: reset has
\* acted on a registry that held drones
C10_Witness == DOMAIN drones = {} /\ noisy > 0

(***************************************************************************)
(* C9.  Ticks that are enough to land from height z: the descent covers    *)
(* max_speed*dt per tick above 0.5 m and a tenth of the height below.      *)
(***************************************************************************)
EnoughTicks(z) == (Abs(z) \div 50) + 25

\* drone 1 is Landing and the tick loop has enough ticks left to land it
LandingInTime ==
    /\ drones[1].status = "landing"
    /\ now + EnoughTicks(drones[1].z) * dt <= LiveTicks * dt

Landed == drones[1].status = "idle" /\ drones[1].z = 0 /\ drones[1].vz = 0

LandingStep ==
    (IsTick /\ drones[1].status = "landing") =>
        IF Abs(drones[1].z) > LandedThreshold
        THEN /\ drones'[1].vz = ClampSpeed(2 * (0 - drones[1].z))
             /\ drones'[1].z = drones[1].z + Displacement(drones'[1].vz)
             /\ Abs(drones'[1].z) < Abs(drones[1].z)
             /\ drones'[1].status = IF FailsErrorCheck(1) THEN "error" ELSE "landing"
        ELSE /\ drones'[1].z = 0
             /\ drones'[1].vz = 0
             /\ drones'[1].status = IF FailsErrorCheck(1) THEN "error" ELSE "idle"

AnyCounts == 0..(MaxDrones + 1)

\* a drone as create_swarm leaves it
Fresh(drone) ==
    /\ drone.status = "idle"
    /\ drone.battery = FullBattery
    /\ drone.x = 0 /\ drone.y = 0 /\ drone.z = 0
    /\ drone.vx = 0 /\ drone.vy = 0 /\ drone.vz = 0

C11_Created(count, r) ==
    /\ Len(r.ret) = count
    /\ \A i, j \in 1..Len(r.ret) : i # j => r.ret[i] # r.ret[j]
    /\ DOMAIN r.drones = {r.ret[i] : i \in 1..Len(r.ret)}
    /\ Cardinality(DOMAIN r.drones) = count
    /\ \A id \in DOMAIN r.drones : Fresh(r.drones[id]) /\ r.drones[id].id = id

C11_CreateOnEmpty ==
    \A count \in AnyCounts, run_id \in RunIds :
        C11_Created(count, create_swarm(EmptyRegistry, count, run_id))

C11_CreateStep ==
    (drones = EmptyRegistry /\ drones' # drones)
        => \E count \in Counts, run_id \in RunIds :
              /\ drones' = create_swarm(drones, count, run_id).drones
              /\ C11_Created(count, create_swarm(drones, count, run_id))

C12_UnknownDrone ==
    \A id \in AnyIds :
        ~Known(id) =>
            /\ \A h \in AnyHeights, d \in AnyDurations :
                  takeoff(drones, id, h, d, now) = [ret |-> FALSE, drones |-> drones]
            /\ \A t \in AnyTargets, sp \in AnySpeeds :
                  goto(drones, id, t[1], t[2], t[3], sp) = [ret |-> FALSE, drones |-> drones]
            /\ land(drones, id, now) = [ret |-> FALSE, drones |-> drones]
            /\ get_drone_state(drones, id) = None

\* a swarm of one drone in the air: identifier 2 is one the commands of the
\* model issue and is not in the registry
C12_Witness ==
    /\ DOMAIN drones = {1}
    /\ drones[1].status = "flying"
    /\ issued = MaxCommands

(***************************************************************************)
(* C13: set_formation changes the target only of drones that are Flying    *)
(* at the moment of the call, assigning the i-th solved position to the    *)
(* i-th Flying drone in registry iteration order; the targets of Idle,     *)
(* TakingOff, Landing and Error drones and every drone's status are        *)
(* unchanged, and when no drone is Flying it returns false and changes     *)
(* nothing.                                                                *)
(***************************************************************************)
AnyFormations == {"line", "circle", "grid", "vshape", "spiral"}
AnyParameters == Parameters \cup {[spacing |-> 300]}

IsFlying(id) == drones[id].status = "flying"

\* the number of Flying drones up to and including id, in registry order
FlyingRank(id) == Cardinality({j \in DOMAIN drones : j <= id /\ IsFlying(j)})

FlyingCount == Cardinality({j \in DOMAIN drones : IsFlying(j)})

C13_FormationFrame ==
    \A formation \in AnyFormations, parameters \in AnyParameters :
        LET r == set_formation(drones, formation, parameters)
            positions == calculate_formation_positions(formation, FlyingCount, parameters)
        IN  /\ DOMAIN r.drones = DOMAIN drones
            /\ \A id \in DOMAIN drones :
                  /\ r.drones[id].status = drones[id].status
                  /\ ~IsFlying(id) => r.drones[id] = drones[id]
                  /\ (IsFlying(id) /\ FlyingRank(id) <= Len(positions)) =>
                        /\ r.drones[id].target_x = positions[FlyingRank(id)][1]
                        /\ r.drones[id].target_y = positions[FlyingRank(id)][2]
                        /\ r.drones[id].target_z = positions[FlyingRank(id)][3]
                        /\ r.drones[id] = [drones[id] EXCEPT
                                              !.target_x = r.drones[id].target_x,
                                              !.target_y = r.drones[id].target_y,
                                              !.target_z = r.drones[id].target_z]
            /\ FlyingCount = 0 => r = [ret |-> FALSE, drones |-> drones]

\* the first Flying drone is the second of the registry, behind a drone
\* that is TakingOff
C13_Witness ==
    /\ DOMAIN drones = {1, 2}
    /\ drones[1].status = "takingOff"
    /\ drones[2].status = "flying"

(***************************************************************************)
(* C14: an unknown formation name yields an empty position sequence, so    *)
(* set_formation with that name moves no drone: every drone's target (and  *)
(* the rest of its state) is the same after the call as before.            *)
(***************************************************************************)
UnknownFormations == {"spiral", "Circle", ""}

C14_UnknownFormation ==
    \A formation \in UnknownFormations, parameters \in AnyParameters :
        /\ \A count \in AnyCounts :
              calculate_formation_positions(formation, count, parameters) = <<>>
        /\ set_formation(drones, formation, parameters).drones = drones

\* two Flying drones, which set_formation would retarget under a known name
C14_Witness ==
    /\ DOMAIN drones = {1, 2}
    /\ IsFlying(1) /\ IsFlying(2)
    /\ set_formation(drones, "spiral", [spacing |-> 300]).ret = TRUE
    /\ set_formation(drones, "vshape", [spacing |-> 300]).drones # drones

(***************************************************************************)
(* The formation solver on its own: _calculate_formation_positions for a   *)
(* formation name, a number of drones and a parameter dictionary.          *)
(***************************************************************************)
\* the numbers of drones whose circle angles are multiples of 30 degrees
FormationCounts == {0, 1, 2, 3, 4, 6}

FormationNames == {"line", "circle", "grid", "vshape", "spiral"}

FormationParameters ==
    {NoParameters,
     [radius |-> 1000, height |-> 600],
     [radius |-> 200, spacing |-> 400, height |-> 60],
     [spacing |-> 300],
     [radius |-> 500, spacing |-> 500, height |-> 1000]}

InitFormation ==
    /\ now = 0
    /\ issued = 0
    /\ noisy = 0
    /\ drones = EmptyRegistry
    /\ plan = NoPlan
    /\ loop = Sleeping
    /\ experiment = NoExperiment
    /\ solver = NoFormation

SolveFormation ==
    /\ solver.pc = "idle"
    /\ \E name \in FormationNames, count \in FormationCounts,
          parameters \in FormationParameters :
          solver' = [pc |-> "solved", name |-> name, count |-> count,
                        parameters |-> parameters,
                        positions |->
                            calculate_formation_positions(name, count, parameters)]
    /\ UNCHANGED <<drones, now, issued, noisy, plan, loop, experiment>>

ForgetFormation ==
    /\ solver.pc = "solved"
    /\ solver' = NoFormation
    /\ UNCHANGED <<drones, now, issued, noisy, plan, loop, experiment>>

NextFormation ==
    \/ SolveFormation
    \/ ForgetFormation

FormationSpec == InitFormation /\ [][NextFormation]_vars

(***************************************************************************)
(* One drone in flight: it has taken off to the default height with        *)
(* duration 0, the first tick has completed the takeoff, and a goto has    *)
(* set its target.  From there ticks and further gotos interleave.         *)
(***************************************************************************)
MaxFlyTicks == 8
MaxRetargets == 1

\* slower than max_speed, the speed of the figure-eight script, faster than
\* max_speed
FlySpeeds == {200, 500, 5000}

\* far along x, inside the slow-down radius, at exactly the threshold, inside
\* the threshold, the position itself, far and off the axes
FlyTargets ==
    {<<300, 0, 600>>, <<60, 0, 600>>, <<40, 30, 600>>, <<30, 0, 600>>,
     <<0, 0, 600>>, <<200, -100, 800>>}

InitFly ==
    /\ now = dt
    /\ issued = 0
    /\ noisy = 0
    /\ plan = NoPlan
    /\ loop = Sleeping
    /\ experiment = NoExperiment
    /\ solver = NoFormation
    /\ \E run_id \in RunIds, target \in FlyTargets, speed \in FlySpeeds :
          LET created == create_swarm(EmptyRegistry, 1, run_id).drones
              commanded == takeoff(created, 1, DefaultHeight, 0, 0).drones
              airborne == update_drones(commanded, 0,
                                        [id \in DOMAIN commanded |-> NoNoise])
          IN  drones = goto(airborne, 1, target[1], target[2], target[3],
                            speed).drones

FlyTick ==
    /\ now < MaxFlyTicks * dt
    /\ \E noise \in [DOMAIN drones -> NoiseSamples] :
          LET perturbed == {id \in DOMAIN drones : noise[id] # NoNoise}
          IN  /\ noisy + Cardinality(perturbed) <= MaxNoisy
              /\ drones' = update_drones(drones, now, noise)
              /\ noisy' = noisy + Cardinality(perturbed)
    /\ now' = now + dt
    /\ UNCHANGED <<issued, plan, loop, experiment, solver>>

FlyGoto ==
    \E drone_id \in DOMAIN drones, target \in FlyTargets, speed \in FlySpeeds :
        LET r == goto(drones, drone_id, target[1], target[2], target[3], speed)
        IN  /\ drones' = r.drones
            /\ issued < MaxRetargets
            /\ issued' = issued + 1
            /\ UNCHANGED <<now, noisy, plan, loop, experiment, solver>>

NextFly ==
    \/ FlyTick
    \/ FlyGoto

FlySpec == InitFly /\ [][NextFly]_vars

(***************************************************************************)
(* The tick loop and the request handlers as coroutines of one event loop. *)
(* A coroutine runs from one suspension to the next without interleaving;  *)
(* the only await of _simulation_loop that suspends is asyncio.sleep, and  *)
(* emergency_stop, reset and the commands have none.  A pass of            *)
(* _update_drones is split here into its steps per drone: the battery      *)
(* update with the dispatch on the status, then the update of the branch   *)
(* taken, the noise and the error check.  loop.after records the last      *)
(* emergency_stop or reset and the number of commands issued by then.      *)
(***************************************************************************)
\* the event loop is free to run a request handler
CanRunPreemptive == TRUE

CanRun == loop.holder = "none"

\* for drone in self.drones.values()
RECURSIVE RegistryOrder(_, _)
RegistryOrder(reg, i) ==
    IF i \notin DOMAIN reg THEN <<>> ELSE <<i>> \o RegistryOrder(reg, i + 1)

\* the branch of lines 97-102 that the dispatch chose
update_branch(drone, branch, current_time) ==
    IF branch = "takingOff" THEN update_takeoff(drone, current_time)
    ELSE IF branch = "flying" THEN update_flying(drone, current_time)
    ELSE IF branch = "landing" THEN update_landing(drone, current_time)
    ELSE drone

\* the loop task ended by an exception out of _update_drones
Crashed == [Sleeping EXCEPT !.holder = "crashed"]

InitPass ==
    /\ now = 0
    /\ issued = 0
    /\ noisy = 0
    /\ plan = NoPlan
    /\ loop = Sleeping
    /\ experiment = NoExperiment
    /\ solver = NoFormation
    /\ \E count \in 1..MaxDrones, run_id \in RunIds :
          drones = create_swarm(EmptyRegistry, count, run_id).drones

BeginPass ==
    /\ loop.holder = "none"
    /\ now < MaxTicks * dt
    /\ loop' = [loop EXCEPT !.holder = "tick",
                            !.pending = RegistryOrder(drones, 1),
                            !.current_time = now]
    /\ UNCHANGED <<drones, now, issued, noisy, plan, experiment, solver>>

Dispatch ==
    /\ loop.holder = "tick"
    /\ loop.pending # <<>>
    /\ loop.branch = "none"
    /\ LET id == Head(loop.pending)
       IN  IF id \in DOMAIN drones
           THEN /\ drones' = [drones EXCEPT ![id] = drain_battery(@)]
                /\ loop' = [loop EXCEPT !.branch = drones[id].status]
           ELSE /\ drones' = drones
                /\ loop' = Crashed
    /\ UNCHANGED <<now, issued, noisy, plan, experiment, solver>>

Apply ==
    /\ loop.holder = "tick"
    /\ loop.branch # "none"
    /\ LET id == Head(loop.pending)
       IN  IF id \in DOMAIN drones
           THEN \E n \in NoiseSamples :
                   LET drawn == IF n = NoNoise THEN 0 ELSE 1
                   IN  /\ noisy + drawn <= MaxNoisy
                       /\ noisy' = noisy + drawn
                       /\ drones' = [drones EXCEPT ![id] =
                              check_errors(apply_noise(
                                  update_branch(@, loop.branch, loop.current_time), n))]
                       /\ loop' = [loop EXCEPT !.pending = Tail(@), !.branch = "none"]
           ELSE /\ drones' = drones
                /\ noisy' = noisy
                /\ loop' = Crashed
    /\ UNCHANGED <<now, issued, plan, experiment, solver>>

\* _log_states, then the asyncio.sleep that lets one tick period pass
EndPass ==
    /\ loop.holder = "tick"
    /\ loop.pending = <<>>
    /\ loop.branch = "none"
    /\ loop' = [loop EXCEPT !.holder = "none", !.after = Sleeping.after]
    /\ now' = now + dt
    /\ UNCHANGED <<drones, issued, noisy, plan, experiment, solver>>

PassTakeoff == CanRun /\ Takeoff

PassEmergencyStop ==
    /\ CanRun
    /\ issued < MaxCommands
    /\ drones' = emergency_stop(drones)
    /\ issued' = issued + 1
    /\ loop' = [loop EXCEPT !.after = [kind |-> "stop", at |-> issued + 1]]
    /\ UNCHANGED <<now, noisy, plan, experiment, solver>>

PassReset ==
    /\ CanRun
    /\ issued < MaxCommands
    /\ drones' = reset(drones)
    /\ issued' = issued + 1
    /\ loop' = [loop EXCEPT !.after = [kind |-> "reset", at |-> issued + 1]]
    /\ UNCHANGED <<now, noisy, plan, experiment, solver>>

NextPass ==
    \/ BeginPass
    \/ Dispatch
    \/ Apply
    \/ EndPass
    \/ PassTakeoff
    \/ PassEmergencyStop
    \/ PassReset

PassSpec == InitPass /\ [][NextPass]_vars

(***************************************************************************)
(* run_experiment.  A script is the sequence of the commands and           *)
(* asyncio.sleep calls that its scenario executes, the loops over          *)
(* drone_ids unrolled; the script and the tick loop are coroutines of one  *)
(* event loop, and loop.holder tells which of them is running.  The calls  *)
(* of the commands do not suspend the script; asyncio.sleep does.  Times   *)
(* are in ms, the requested duration in seconds.                           *)
(***************************************************************************)
MaxExpTicks == 90

CircularRadius == 1000
CircularHeight == 500
HoverHeight == 600
FigureHeight == 600
FigureSpeed == 500
TakeoffTime == 2000
TakeoffWait == 3000

Instruction(op, a) == [op |-> op, a |-> a]

\* for drone_id in drone_ids: await self.takeoff(drone_id, height, 2.0)
TakeoffAll(drone_ids, height) ==
    [k \in 1..Len(drone_ids) |->
        Instruction("takeoff", <<drone_ids[k], height, TakeoffTime>>)]

\* for drone_id in drone_ids: await self.land(drone_id)
LandAll(drone_ids) ==
    [k \in 1..Len(drone_ids) |-> Instruction("land", <<drone_ids[k]>>)]

\* the result record of a scenario that ran without the runId
experiment_result_no_run(scenario, run_id, duration) ==
    [scenario |-> scenario, duration |-> duration, success |-> TRUE]

\* the result record of a scenario that ran
experiment_result(scenario, run_id, duration) ==
    [scenario |-> scenario, runId |-> run_id, duration |-> duration,
     success |-> TRUE]

\* _run_circular_formation
run_circular_formation(reg, num_drones, duration, parameters, time) ==
    LET radius == Get(parameters, "radius", CircularRadius)
        height == Get(parameters, "height", CircularHeight)
        run_id == <<"circular", time \div 1000>>
        drone_ids == create_swarm(reg, num_drones, run_id).ret
    IN  <<Instruction("create_swarm", <<num_drones, run_id>>)>>
        \o TakeoffAll(drone_ids, height)
        \o <<Instruction("sleep", <<TakeoffWait>>),
             Instruction("set_formation",
                         <<"circle", [radius |-> radius, height |-> height]>>),
             Instruction("sleep", <<1000 * duration>>)>>
        \o LandAll(drone_ids)
        \o <<Instruction("return",
                         <<experiment_result("circular_formation", run_id, duration)>>)>>

\* the waypoints of _run_figure_eight
waypoints ==
    <<<<0, 0, 600>>, <<1000, 500, 600>>, <<0, 1000, 600>>, <<-1000, 500, 600>>,
      <<0, 0, 600>>>>

\* one turn of the loop over the waypoints: the goto, then the sleep
RECURSIVE Visit(_, _, _)
Visit(id, duration, k) ==
    IF k > Len(waypoints) THEN <<>>
    ELSE <<Instruction("goto", <<id, waypoints[k][1], waypoints[k][2],
                                 waypoints[k][3], FigureSpeed>>),
           Instruction("sleep", <<(1000 * duration) \div Len(waypoints)>>)>>
         \o Visit(id, duration, k + 1)

\* _run_figure_eight
run_figure_eight(reg, num_drones, duration, parameters, time) ==
    IF num_drones < 1
    THEN <<Instruction("return",
                       <<[error |-> <<"Need at least 1 drone for figure-8">>]>>)>>
    ELSE LET run_id == <<"figure8", time \div 1000>>
             drone_ids == create_swarm(reg, num_drones, run_id).ret
         IN  <<Instruction("create_swarm", <<num_drones, run_id>>),
               Instruction("takeoff", <<drone_ids[1], FigureHeight, TakeoffTime>>),
               Instruction("sleep", <<TakeoffWait>>)>>
             \o Visit(drone_ids[1], duration, 1)
             \o <<Instruction("land", <<drone_ids[1]>>),
                  Instruction("return",
                              <<experiment_result("figure_eight", run_id, duration)>>)>>

\* _run_takeoff_hover_land
run_takeoff_hover_land(reg, num_drones, duration, parameters, time) ==
    LET height == Get(parameters, "height", HoverHeight)
        run_id == <<"hover", time \div 1000>>
        drone_ids == create_swarm(reg, num_drones, run_id).ret
    IN  <<Instruction("create_swarm", <<num_drones, run_id>>)>>
        \o TakeoffAll(drone_ids, height)
        \o <<Instruction("sleep", <<TakeoffWait>>),
             Instruction("sleep", <<1000 * duration>>)>>
        \o LandAll(drone_ids)
        \o <<Instruction("return",
                         <<experiment_result("takeoff_hover_land", run_id, duration)>>)>>

\* run_experiment: the script of the scenario
run_experiment(reg, scenario, num_drones, duration, parameters, time) ==
    IF scenario = "circular_formation"
    THEN run_circular_formation(reg, num_drones, duration, parameters, time)
    ELSE IF scenario = "figure_eight"
    THEN run_figure_eight(reg, num_drones, duration, parameters, time)
    ELSE IF scenario = "takeoff_hover_land"
    THEN run_takeoff_hover_land(reg, num_drones, duration, parameters, time)
    ELSE <<Instruction("return", <<[error |-> <<"Unknown scenario: ", scenario>>]>>)>>

\* time.sleep in the place of asyncio.sleep: the script keeps the event loop
suspends_never(instruction) == FALSE

\* the awaits of a script that suspend it: asyncio.sleep, whatever the delay
suspends(instruction) == instruction.op = "sleep"

\* the registry that a command of the script leaves
command(reg, instruction, time) ==
    LET a == instruction.a
    IN  IF instruction.op = "create_swarm" THEN create_swarm(reg, a[1], a[2]).drones
        ELSE IF instruction.op = "takeoff"
        THEN takeoff(reg, a[1], a[2], a[3], time).drones
        ELSE IF instruction.op = "set_formation"
        THEN set_formation(reg, a[1], a[2]).drones
        ELSE IF instruction.op = "goto"
        THEN goto(reg, a[1], a[2], a[3], a[4], a[5]).drones
        ELSE IF instruction.op = "land" THEN land(reg, a[1], time).drones
        ELSE reg

Scenarios == {"circular_formation", "figure_eight", "takeoff_hover_land", "spiral"}
ExpCounts == (-1)..MaxDrones
Durations == {-1, 0, 1}
ExpParameters == {NoParameters, [radius |-> 500, height |-> 800]}

\* the script has returned
Done == experiment.pc > Len(experiment.program)

\* run_experiment has just been called, on an empty registry or on the swarm
\* that an earlier run left
InitExp ==
    /\ now = 0
    /\ issued = 0
    /\ noisy = 0
    /\ plan = NoPlan
    /\ solver = NoFormation
    /\ loop = [Sleeping EXCEPT !.holder = "script"]
    /\ \/ drones = EmptyRegistry
       \/ drones = create_swarm(EmptyRegistry, MaxDrones, <<"earlier", 0>>).drones
    /\ \E scenario \in Scenarios, num_drones \in ExpCounts, duration \in Durations,
          parameters \in ExpParameters :
          experiment =
              [NoExperiment EXCEPT
                  !.pc = 1,
                  !.program = run_experiment(drones, scenario, num_drones,
                                             duration, parameters, now),
                  !.request = [scenario |-> scenario, num_drones |-> num_drones,
                               duration |-> duration, parameters |-> parameters]]

\* the script runs one of its commands
ExpCommand ==
    /\ loop.holder = "script"
    /\ ~Done
    /\ experiment.program[experiment.pc].op \notin {"sleep", "return"}
    /\ drones' = command(drones, experiment.program[experiment.pc], now)
    /\ experiment' = [experiment EXCEPT !.pc = @ + 1]
    /\ UNCHANGED <<now, issued, noisy, plan, loop, solver>>

\* the script reaches an asyncio.sleep
ExpSleep ==
    /\ loop.holder = "script"
    /\ ~Done
    /\ experiment.program[experiment.pc].op = "sleep"
    /\ LET delay == experiment.program[experiment.pc].a[1]
       IN  experiment' = [experiment EXCEPT !.pc = @ + 1,
                                            !.waiting = TRUE,
                                            !.wake = now + Max(0, delay),
                                            !.slept = Max(0, delay),
                                            !.ticks = 0]
    /\ loop' = [loop EXCEPT !.holder =
                   IF suspends(experiment.program[experiment.pc])
                   THEN "none" ELSE "script"]
    /\ UNCHANGED <<drones, now, issued, noisy, plan, solver>>

\* the sleep is over and the event loop resumes the script
ExpWake ==
    /\ loop.holder = "none"
    /\ experiment.waiting
    /\ now >= experiment.wake
    /\ experiment' = [experiment EXCEPT !.waiting = FALSE]
    /\ loop' = [loop EXCEPT !.holder = "script"]
    /\ UNCHANGED <<drones, now, issued, noisy, plan, solver>>

\* the script returns its result
ExpReturn ==
    /\ loop.holder = "script"
    /\ ~Done
    /\ experiment.program[experiment.pc].op = "return"
    /\ experiment' = [experiment EXCEPT
                         !.pc = @ + 1,
                         !.result = experiment.program[experiment.pc].a[1]]
    /\ loop' = [loop EXCEPT !.holder = "none"]
    /\ UNCHANGED <<drones, now, issued, noisy, plan, solver>>

\* _simulation_loop wakes up for its next pass; a script whose sleep ended
\* before this pass was due has been resumed first
ExpBeginPass ==
    /\ loop.holder = "none"
    /\ now < MaxExpTicks * dt
    /\ ~(experiment.waiting /\ experiment.wake < now)
    /\ loop' = [loop EXCEPT !.holder = "tick",
                            !.pending = RegistryOrder(drones, 1),
                            !.current_time = now]
    /\ UNCHANGED <<drones, now, issued, noisy, plan, experiment, solver>>

\* _update_drones: the body of the loop for the next drone, its noise draws 0
ExpUpdate ==
    /\ loop.holder = "tick"
    /\ loop.pending # <<>>
    /\ LET id == Head(loop.pending)
       IN  IF id \in DOMAIN drones
           THEN /\ drones' = [drones EXCEPT ![id] =
                                 update_drone(@, loop.current_time, NoNoise)]
                /\ loop' = [loop EXCEPT !.pending = Tail(@)]
           ELSE /\ drones' = drones
                /\ loop' = Crashed
    /\ UNCHANGED <<now, issued, noisy, plan, experiment, solver>>

\* _log_states, then the asyncio.sleep that lets one tick period pass
ExpEndPass ==
    /\ loop.holder = "tick"
    /\ loop.pending = <<>>
    /\ loop' = [loop EXCEPT !.holder = "none"]
    /\ now' = now + dt
    /\ experiment' = [experiment EXCEPT
                         !.ticks = IF experiment.waiting THEN @ + 1 ELSE @]
    /\ UNCHANGED <<drones, issued, noisy, plan, solver>>

NextExp ==
    \/ ExpCommand
    \/ ExpSleep
    \/ ExpWake
    \/ ExpReturn
    \/ ExpBeginPass
    \/ ExpUpdate
    \/ ExpEndPass

ExpSpec == InitExp /\ [][NextExp]_vars

(***************************************************************************)
(* Claim support for the planner.                                          *)
(***************************************************************************)
\* the distance of point to the segment is at least the safety radius, in
\* exact arithmetic on the squares (cm^2)
KeepsClear(line_start, line_end, point) ==
    LET v == Minus(line_end, line_start)
        w == Minus(point, line_start)
        length_sq == NormSq(v)
        dot == Dot(w, v)
        limit == safety_radius * safety_radius
    IN  IF length_sq = 0 \/ dot <= 0 THEN NormSq(w) >= limit
        ELSE IF dot >= length_sq THEN NormSq(Minus(point, line_end)) >= limit
        ELSE NormSq(w) * length_sq - dot * dot >= limit * length_sq

SegmentClear(line_start, line_end, obstacles) ==
    \A k \in 1..Len(obstacles) : KeepsClear(line_start, line_end, obstacles[k])

PathClear(path, obstacles) ==
    \A i \in 1..(Len(path) - 1) : SegmentClear(path[i], path[i + 1], obstacles)

Planned == plan.pc # "idle"

(***************************************************************************)
(* C15: for every start and goal, when no obstacle is closer than the      *)
(* safety radius to the segment start-goal (no obstacle at all included),  *)
(* plan_path returns exactly the two-point path [start, goal].             *)
(***************************************************************************)
C15_DirectWhenClear ==
    (Planned /\ SegmentClear(plan.start, plan.goal, plan.obstacles))
        => plan.result = Returned(<<plan.start, plan.goal>>)

\* two obstacles beside the segment, one of them at exactly the safety radius
C15_Witness ==
    /\ Planned
    /\ plan.goal = <<200, 0, 50>>
    /\ plan.obstacles = <<<<100, 30, 50>>, <<0, 0, 100>>>>
    /\ SegmentClear(plan.start, plan.goal, plan.obstacles)

(***************************************************************************)
(* C16: every path that plan_path returns keeps every segment between two  *)
(* waypoints, and so every waypoint, at least the safety radius away from  *)
(* every obstacle: validate_path reports minSeparation >= safety_radius    *)
(* and success.                                                            *)
(***************************************************************************)
C16_ReturnedPathSafe ==
    (Planned /\ ~plan.result.raised) =>
        LET report == validate_path(plan.result.path, plan.obstacles)
        IN  /\ report.minSeparation >= 10 * safety_radius
            /\ report.success
            /\ \A i \in 1..Len(plan.result.path), k \in 1..Len(plan.obstacles) :
                  point_to_line_distance(plan.result.path[i], plan.result.path[i],
                                         plan.obstacles[k]) >= 10 * safety_radius

\* a detour of one waypoint around two obstacles
C16_Witness ==
    /\ Planned
    /\ ~plan.result.raised
    /\ Len(plan.result.path) = 3
    /\ Len(plan.obstacles) = 2
    /\ plan.obstacles[1] # plan.obstacles[2]
    /\ ~SegmentClear(plan.start, plan.goal, plan.obstacles)

(***************************************************************************)
(* C17: plan_path terminates and returns a path for every start, goal and  *)
(* obstacle list, degenerate geometry included, rather than raising or     *)
(* recursing without end.                                                  *)
(***************************************************************************)
C17_NeverFails == Planned => ~plan.result.raised

(***************************************************************************)
(* C18: validate_path reports valid, and success, true if and only if the  *)
(* path has at least 2 waypoints and no obstacle is closer than the safety *)
(* radius to a segment of it (no obstacles: infinite separation, valid); a *)
(* path of fewer than 2 waypoints is reported valid = false, success =     *)
(* false with the reason "Path too short".                                 *)
(***************************************************************************)
C18_ValidateContract ==
    plan.pc = "validated" =>
        /\ plan.report = validate_path(plan.path, plan.obstacles)
        /\ plan.report.valid = plan.report.success
        /\ plan.report.valid <=>
              (Len(plan.path) >= 2 /\ PathClear(plan.path, plan.obstacles))
        /\ (Len(plan.path) >= 2 /\ plan.obstacles = <<>>) =>
              (plan.report.minSeparation = Infinity /\ plan.report.valid)
        /\ Len(plan.path) < 2 =>
              /\ ~plan.report.valid
              /\ ~plan.report.success
              /\ plan.report.reason = "Path too short"

\* the direct path, validated with an obstacle at exactly the safety radius
C18_Witness ==
    /\ plan.pc = "validated"
    /\ plan.path = <<plan.start, plan.goal>>
    /\ plan.obstacles = <<<<100, 30, 50>>>>
    /\ plan.report.valid
    /\ plan.report.minSeparation = 10 * safety_radius

(***************************************************************************)
(* C19: every path returned by plan_path has at least 2 waypoints, starts  *)
(* at start and ends at goal, for any obstacle list and at every level of  *)
(* the detour recursion.                                                   *)
(***************************************************************************)
EndsRight(path, start, goal) ==
    /\ Len(path) >= 2
    /\ path[1] = start
    /\ path[Len(path)] = goal

C19_PathEnds ==
    Planned =>
        /\ ~plan.result.raised => EndsRight(plan.result.path, plan.start, plan.goal)
        /\ \A i \in 1..(Len(plan.result.path) - 1) :
              LET detour == find_detour_path(plan.result.path[i], plan.result.path[i + 1],
                                             plan.obstacles, 1)
              IN  ~detour.raised =>
                      EndsRight(detour.path, plan.result.path[i], plan.result.path[i + 1])

\* a detour within a detour: four waypoints
C19_Witness ==
    /\ Planned
    /\ ~plan.result.raised
    /\ Len(plan.result.path) >= 4

(***************************************************************************)
(* C20: emergency_stop and reset are serialized with tick execution:       *)
(* neither runs while a pass of _update_drones is under way, the first     *)
(* pass after an emergency_stop (no command in between) finds every drone  *)
(* Idle with zero velocity and applies no branch chosen before the stop,   *)
(* and the first pass after a reset finds an empty registry.               *)
(***************************************************************************)
\* the step is an emergency_stop or a reset
StopsOrResets == loop'.after # loop.after /\ loop'.after.kind # "none"

\* no command has been issued since the last emergency_stop or reset
FirstAfter(kind) == loop.after.kind = kind /\ loop.after.at = issued

AllStopped ==
    \A id \in DOMAIN drones :
        /\ drones[id].status = "idle"
        /\ drones[id].vx = 0 /\ drones[id].vy = 0 /\ drones[id].vz = 0

PassBegins == loop.holder = "none" /\ loop'.holder = "tick"

Dispatches == loop.branch = "none" /\ loop'.branch # "none"

Applies == loop.branch # "none" /\ loop'.branch = "none"

C20_Step ==
    /\ StopsOrResets => (loop.holder = "none" /\ loop.pending = <<>>)
    /\ (PassBegins /\ FirstAfter("stop")) => AllStopped
    /\ (Dispatches /\ FirstAfter("stop")) =>
          /\ loop'.branch = "idle"
          /\ LET id == Head(loop.pending)
             IN  drones[id].vx = 0 /\ drones[id].vy = 0 /\ drones[id].vz = 0
    /\ (Applies /\ FirstAfter("stop")) => loop.branch = "idle"
    /\ (PassBegins /\ FirstAfter("reset")) =>
          (DOMAIN drones = {} /\ loop'.pending = <<>>)
    /\ FirstAfter("reset") => ~(Dispatches \/ Applies)
    /\ loop'.holder # "crashed"

C20_Serialized == [][C20_Step]_vars

\* the first pass after an emergency_stop has reached the second drone of a
\* swarm of which a drone had taken off, one pass before the stop
C20_Witness ==
    /\ loop.holder = "tick"
    /\ FirstAfter("stop")
    /\ Len(loop.pending) = 1
    /\ loop.branch = "idle"
    /\ now > 0
    /\ \E id \in DOMAIN drones : drones[id].z > 0

(***************************************************************************)
(* Claim support for the formations.                                       *)
(***************************************************************************)
Solved(name) == solver.pc = "solved" /\ solver.name = name

\* the squared length of the segment between two positions, in the plane
Chord(p, q) == (p[1] - q[1]) * (p[1] - q[1]) + (p[2] - q[2]) * (p[2] - q[2])

\* a set of offsets is symmetric about 0
Symmetric(offsets) == \A o \in offsets : -o \in offsets

(***************************************************************************)
(* C22: the circle formation for count drones produces count targets, the  *)
(* i-th at angle 2*pi*i/count on the circle of the given radius (the first *)
(* at angle 0, the others equally spaced counterclockwise), all with z     *)
(* equal to the height parameter; for count = 4, radius = 1.0 and height = *)
(* 0.6 the targets lie at 0, 90, 180 and 270 degrees with z = 0.6.         *)
(***************************************************************************)
C22_Circle ==
    Solved("circle") =>
        LET positions == solver.positions
            count == solver.count
            radius == Get(solver.parameters, "radius", DefaultRadius)
            height == Get(solver.parameters, "height", DefaultHeight)
            next(k) == IF k = count THEN 1 ELSE k + 1
        IN  /\ Len(positions) = count
            /\ \A k \in 1..count :
                  /\ positions[k][3] = height
                  /\ Abs(positions[k][1] * positions[k][1]
                           + positions[k][2] * positions[k][2]
                           - radius * radius) <= 2 * radius
                  /\ Abs(Chord(positions[k], positions[next(k)])
                           - Chord(positions[1], positions[next(1)])) <= 4 * radius
                  /\ count >= 3 =>
                        positions[k][1] * positions[next(k)][2]
                          - positions[k][2] * positions[next(k)][1] > 0
            /\ count >= 1 => positions[1] = <<radius, 0, height>>
            /\ (count = 4 /\ radius = 1000 /\ height = 600) =>
                  positions = << <<1000, 0, 600>>, <<0, 1000, 600>>,
                                 <<-1000, 0, 600>>, <<0, -1000, 600>> >>

\* the circle of the scenario: 4 drones, radius 1.0, height 0.6
C22_Witness ==
    /\ Solved("circle")
    /\ solver.count = 4
    /\ solver.parameters = [radius |-> 1000, height |-> 600]

(***************************************************************************)
(* C26: the line formation for count drones places the i-th target at      *)
(* x = (i - (count-1)/2) * spacing, y = 0, z = the height parameter passed *)
(* by the caller.                                                          *)
(***************************************************************************)
C26_Line ==
    Solved("line") =>
        LET positions == solver.positions
            count == solver.count
            spacing == Get(solver.parameters, "spacing", DefaultSpacing)
        IN  /\ Len(positions) = count
            /\ \A k \in 1..count :
                  /\ 2 * positions[k][1] = (2 * (k - 1) - (count - 1)) * spacing
                  /\ positions[k][2] = 0
                  /\ "height" \in DOMAIN solver.parameters =>
                        positions[k][3] = solver.parameters.height

(***************************************************************************)
(* C27: the grid formation uses columns = ceil(sqrt(count)), row = i div   *)
(* columns, col = i mod columns, and its offsets are centered in both axes *)
(* for every count: the set of x offsets and the set of y (row) offsets    *)
(* are each symmetric about 0, also when count is not a multiple of        *)
(* columns.                                                                *)
(***************************************************************************)
C27_GridCentered ==
    Solved("grid") =>
        LET positions == solver.positions
            count == solver.count
        IN  /\ Len(positions) = count
            /\ Symmetric({positions[k][1] : k \in 1..count})
            /\ Symmetric({positions[k][2] : k \in 1..count})

(***************************************************************************)
(* Claim support for the detour.                                           *)
(***************************************************************************)
\* the point lies on the line through start and goal
OnLine(start, goal, point) ==
    /\ start # goal
    /\ cross_product(Minus(goal, start), Minus(point, start)) = <<0, 0, 0>>

\* the point lies on the segment from start to goal
OnSegment(start, goal, point) ==
    /\ OnLine(start, goal, point)
    /\ Dot(Minus(point, start), Minus(goal, start)) >= 0
    /\ Dot(Minus(point, start), Minus(goal, start)) <= NormSq(Minus(goal, start))

\* the square of the distance of point to the line through start and goal,
\* times the square of the length of the segment
OffLineSq(start, goal, point) ==
    NormSq(cross_product(Minus(goal, start), Minus(point, start)))

\* the point lies at 1.5 x safety_radius from the line through start and goal
AtDetourDistance(start, goal, point) ==
    OffLineSq(start, goal, point)
        = detour_distance * detour_distance * NormSq(Minus(goal, start))

\* the axis that line 171 substitutes
FixedAxis(start, goal) == IF goal[3] = start[3] THEN <<0, 0, 1>> ELSE <<1, 0, 0>>

OneObstacleOnSegment ==
    /\ Planned
    /\ Len(plan.obstacles) = 1
    /\ OnSegment(plan.start, plan.goal, plan.obstacles[1])

DetourOf(start, goal, obstacle) ==
    LET axis == FixedAxis(start, goal)
    IN  [i \in 1..3 |-> obstacle[i] + detour_distance * axis[i]]

C29_FixedAxisPerpendicular ==
    (/\ Planned
     /\ plan.obstacles # <<>>
     /\ ~is_path_clear(plan.start, plan.goal, plan.obstacles)
     /\ OnLine(plan.start, plan.goal,
               closest_obstacle(plan.start, plan.goal, plan.obstacles)))
        => LET midpoint == calculate_detour_midpoint(plan.start, plan.goal,
                               closest_obstacle(plan.start, plan.goal, plan.obstacles))
           IN  /\ Dot(FixedAxis(plan.start, plan.goal),
                      Minus(plan.goal, plan.start)) = 0
               /\ AtDetourDistance(plan.start, plan.goal, midpoint)

(***************************************************************************)
(* Claim support for the status transitions.                               *)
(***************************************************************************)
IsTakeoffOf(id) ==
    \E a \in TakeoffArgs : drones' = takeoff(drones, id, a[1], a[2], now).drones

IsLandOf(id) == drones' = land(drones, id, now).drones

\* the change of the status of drone id in a step is one of the six listed
ListedChange(id) ==
    LET from == drones[id].status
        to == drones'[id].status
    IN  \/ from = "idle" /\ to = "takingOff" /\ IsTakeoffOf(id)
        \/ /\ from = "takingOff" /\ to = "flying" /\ IsTick
           /\ now - drones[id].takeoff_start >= drones[id].takeoff_duration
        \/ from \in {"flying", "takingOff"} /\ to = "landing" /\ IsLandOf(id)
        \/ /\ from = "landing" /\ to = "idle" /\ IsTick
           /\ Abs(drones[id].z) <= LandedThreshold
        \/ to = "error" /\ IsTick
        \/ to = "idle" /\ IsEmergencyStop

StatusChangesListed ==
    \A id \in DOMAIN drones \cap DOMAIN drones' :
        drones'[id].status # drones[id].status => ListedChange(id)

\* a step that is not a tick puts no drone in Error
NoErrorByCommand ==
    \A id \in DOMAIN drones' :
        drones'[id].status = "error" =>
            id \in DOMAIN drones /\ drones[id].status = "error"

(***************************************************************************)
(* C24: every change of a drone's status, over any interleaving of ticks   *)
(* and commands, is one of: Idle to TakingOff by takeoff; TakingOff to     *)
(* Flying by a tick once elapsed >= duration; Flying or TakingOff to       *)
(* Landing by land; Landing to Idle by a tick once |z| <= 0.05; any status *)
(* to Error by a tick; any status to Idle by emergency_stop.  No command   *)
(* ever sets Error.  (reset removes the drones and create_swarm puts fresh *)
(* drones in the registry: neither changes the status of a drone.)         *)
(***************************************************************************)
C24_StatusChanges ==
    /\ [][IsReset \/ IsCreate \/ StatusChangesListed]_vars
    /\ [][IsTick \/ NoErrorByCommand]_vars

\* a drone that a takeoff took out of Idle and a land put in Landing
C24_Witness ==
    \E id \in DOMAIN drones :
        /\ drones[id].status = "landing"
        /\ drones[id].takeoff_height > 0
        /\ issued = 2

(***************************************************************************)
(* Claim support for the motion of a Flying drone.                         *)
(***************************************************************************)
ToTarget(drone) ==
    <<drone.target_x - drone.x, drone.target_y - drone.y,
      drone.target_z - drone.z>>

Velocity(drone) == <<drone.vx, drone.vy, drone.vz>>

\* the distance to the target is more than 0.05
Far(drone) == NormSq(ToTarget(drone)) > LandedThreshold * LandedThreshold

\* max_speed * min(1, distance / 0.1)
RampSpeed(drone) ==
    Min(max_speed,
        RoundDiv(max_speed * Sqrt(NormSq(ToTarget(drone))), SlowDownRadius))

\* the speed is the ramp speed, to the rounding of the components
AtRampSpeed(velocity, speed) ==
    /\ NormSq(velocity) >= (speed - 8) * (speed - 8)
    /\ NormSq(velocity) <= (speed + 8) * (speed + 8)

\* a is the drone before the motion step and b the drone after it
MotionStep(a, b) ==
    LET before == ToTarget(a)
        after == ToTarget(b)
        moved == <<b.x - a.x, b.y - a.y, b.z - a.z>>
    IN  IF Far(a)
        THEN /\ NormSq(after) < NormSq(before)
             /\ \A i \in 1..3 :
                   /\ after[i] * before[i] >= 0
                   /\ Abs(after[i]) <= Abs(before[i])
             /\ NormSq(cross_product(before, moved)) <= 4 * NormSq(before)
             /\ Dot(moved, before) > 0
             /\ AtRampSpeed(Velocity(b), RampSpeed(a))
             /\ \A i \in 1..3 : moved[i] = Displacement(Velocity(b)[i])
        ELSE /\ moved = <<0, 0, 0>>
             /\ Velocity(b) = <<0, 0, 0>>

(***************************************************************************)
(* C25: for a Flying drone the motion step of a tick never overshoots the  *)
(* target: when the distance to the target is > 0.05 the drone moves       *)
(* straight toward it at speed max_speed * min(1, distance / 0.1), so the  *)
(* distance after the step is strictly smaller than before and no          *)
(* coordinate crosses the target; when the distance is <= 0.05 the         *)
(* velocity is set to zero and the position is left where it is.  Checked  *)
(* on the ticks that draw no noise, where the step is the whole change of  *)
(* the position.                                                           *)
(***************************************************************************)
C25_NoOvershoot ==
    [][(IsTick /\ noisy' = noisy) =>
          \A id \in DOMAIN drones :
              drones[id].status = "flying" =>
                  MotionStep(drones[id], drones'[id])]_vars

\* a drone that flew toward its target and now holds within 0.05 of it, short
\* of the target
C25_Witness ==
    \E id \in DOMAIN drones :
        /\ drones[id].status = "flying"
        /\ drones[id].x > 0
        /\ ~Far(drones[id])
        /\ ToTarget(drones[id]) # <<0, 0, 0>>
        /\ Velocity(drones[id]) = <<0, 0, 0>>
        /\ noisy = 0

(***************************************************************************)
(* C30: the speed argument of goto has no effect: two runs that differ     *)
(* only in the speed values passed to goto produce the same return values  *)
(* and the same drone states after every tick; a Flying drone's speed is   *)
(* determined by max_speed and the distance to its target alone.  The      *)
(* return value and the registry that goto leaves are the same for every   *)
(* speed, so every later tick starts from the same state.                  *)
(***************************************************************************)
C30_SpeedIgnored ==
    /\ [](\A id \in AnyIds, target \in AnyTargets \cup FlyTargets,
             speed \in AnySpeeds \cup FlySpeeds :
               goto(drones, id, target[1], target[2], target[3], speed)
                 = goto(drones, id, target[1], target[2], target[3], FigureSpeed))
    /\ [][(IsTick /\ noisy' = noisy) =>
             \A id \in DOMAIN drones :
                 (drones[id].status = "flying" /\ Far(drones[id])) =>
                     AtRampSpeed(Velocity(drones'[id]), RampSpeed(drones[id]))]_vars

\* a drone in flight toward the target that a later goto gave it
C30_Witness ==
    \E id \in DOMAIN drones :
        /\ drones[id].status = "flying"
        /\ issued > 0
        /\ now > dt
        /\ Far(drones[id])
        /\ Velocity(drones[id]) # <<0, 0, 0>>
        /\ noisy = 0

(***************************************************************************)
(* Claim support for the experiment scripts.                               *)
(***************************************************************************)
\* a script that waits has given the event loop back
LoopReleased == experiment.waiting => loop.holder # "script"

\* a pass of the tick loop runs only while the script waits or after it has
\* returned, never between two commands of the script
PassOnlyAtWaits == loop.holder = "tick" => (experiment.waiting \/ Done)

\* when the script is resumed, the tick loop has completed a pass for each
\* tick period of the wait
TicksDuringWait ==
    (experiment.waiting /\ ~experiment'.waiting) =>
        experiment.ticks * dt >= experiment.slept

(***************************************************************************)
(* C21: a running experiment script never blocks the tick loop: while the  *)
(* script is in one of its wall-clock waits, ticks keep being executed,    *)
(* and the script's commands interleave with ticks only at those waits.    *)
(***************************************************************************)
C21_NoBlocking ==
    /\ [](LoopReleased /\ PassOnlyAtWaits)
    /\ [][TicksDuringWait]_vars

\* the circular formation of two drones has run to its end: 60 passes during
\* the wait for the takeoff, 20 during the second of the formation
C21_Witness ==
    /\ Done
    /\ experiment.request.scenario = "circular_formation"
    /\ experiment.request.num_drones = 2
    /\ experiment.request.duration = 1
    /\ experiment.ticks = 20
    /\ now >= TakeoffWait + 1000
    /\ drones[1].status = "landing"

NamedScenarios == {"circular_formation", "figure_eight", "takeoff_hover_land"}

IsResultRecord(result, request) ==
    /\ DOMAIN result = {"scenario", "runId", "duration", "success"}
    /\ result.scenario = request.scenario
    /\ result.duration = request.duration
    /\ result.success = TRUE

NewRunIds == {"run2"}

C35_CreateOnSwarm ==
    \A count \in AnyCounts, run_id \in NewRunIds :
        LET r == create_swarm(drones, count, run_id)
        IN  /\ DOMAIN r.drones = DOMAIN drones \cup (1..count)
            /\ \A id \in 1..count :
                  /\ Fresh(r.drones[id])
                  /\ r.drones[id] = NewDrone(id, run_id)
            /\ \A id \in DOMAIN drones \ (1..count) : r.drones[id] = drones[id]

\* a create_swarm(1) has replaced the first drone of a swarm of two, the second
\* of which had taken off
C35_Witness ==
    /\ issued = 2
    /\ DOMAIN drones = {1, 2}
    /\ Fresh(drones[1])
    /\ drones[2].status = "takingOff"
    /\ drones[2].battery < FullBattery

(***************************************************************************)
(* C36: the TakingOff update never divides by zero and never fails: with a *)
(* non-decreasing clock, a commanded duration <= 0 makes the first tick    *)
(* after takeoff complete the takeoff (snap z to the commanded height,     *)
(* zero vz, Flying) without computing the progress ratio elapsed/duration. *)
(* Stated of the update applied to every drone that a takeoff with such a  *)
(* duration leaves, at the time of the command and one tick later, and of  *)
(* every tick of a TakingOff drone with such a duration (whose status the  *)
(* error check of the same tick may then replace by Error).                *)
(***************************************************************************)
Completed(drone) ==
    [drone EXCEPT !.z = drone.takeoff_height, !.vz = 0, !.status = "flying"]

C36_UpdateCompletes ==
    \A id \in DOMAIN drones, h \in AnyHeights,
       d \in {x \in AnyDurations : x <= 0} :
        LET r == takeoff(drones, id, h, d, now)
        IN  r.ret =>
                \A current_time \in {now, now + dt} :
                    update_takeoff(r.drones[id], current_time)
                        = Completed(r.drones[id])

C36_TickCompletes ==
    (IsTick /\ noisy' = noisy) =>
        \A id \in DOMAIN drones :
            (drones[id].status = "takingOff" /\ drones[id].takeoff_duration <= 0) =>
                /\ drones'[id].z = drones[id].takeoff_height
                /\ drones'[id].vz = 0
                /\ drones'[id].status \in {"flying", "error"}

C36_ZeroDuration == [] C36_UpdateCompletes /\ [][C36_TickCompletes]_vars

\* the first tick after a takeoff of duration 0 has left the drone Flying at
\* the commanded height
C36_Witness ==
    \E id \in DOMAIN drones :
        /\ drones[id].status = "flying"
        /\ drones[id].takeoff_duration = 0
        /\ drones[id].takeoff_height > 0
        /\ drones[id].z = drones[id].takeoff_height
        /\ now = drones[id].takeoff_start + dt
        /\ noisy = 0

(***************************************************************************)
(* C32 as stated: in the takeoff_hover_land scenario each drone hovers for *)
(* the requested duration: from the tick that completes its takeoff until  *)
(* the land command is issued, and with no other command, the drone stays  *)
(* Flying at the commanded height.                                         *)
(***************************************************************************)
HoverScript == experiment.request.scenario = "takeoff_hover_land"

\* the script has issued a land command
LandIssued ==
    \E k \in 1..Len(experiment.program) :
        k < experiment.pc /\ experiment.program[k].op = "land"

\* the drones that the running script created
OwnDrones == {id \in DOMAIN drones : drones[id].run_id # <<"earlier", 0>>}

C32_Hovers ==
    (HoverScript /\ ~LandIssued) =>
        \A id \in OwnDrones :
            drones[id].status = "flying" =>
                drones[id].z = drones[id].takeoff_height

(***************************************************************************)
(* C37: the Landing update of a tick changes only z, vz and status: x, y,  *)
(* vx, vy and the target are left untouched (apart from the noise step),   *)
(* so a drone that lands while it was moving horizontally becomes Idle     *)
(* with its last horizontal velocity still recorded.  Stated of            *)
(* _update_landing on every reachable Landing drone, and of every          *)
(* noise-free update of a Landing drone in a pass of the tick loop (which  *)
(* also drains the battery).                                               *)
(***************************************************************************)
\* drone b differs from drone a in no field other than the listed ones
SameBut(a, b, fields) ==
    \A f \in DOMAIN a : f \notin fields => b[f] = a[f]

C37_UpdateFrame ==
    \A id \in DOMAIN drones :
        drones[id].status = "landing" =>
            LET r == update_landing(drones[id], now)
            IN  /\ SameBut(drones[id], r, {"z", "vz", "status"})
                /\ r.status \in {"landing", "idle"}
                /\ r.status = "idle" => (r.z = 0 /\ r.vz = 0)

\* the tick loop updates the next drone of its pass, and that drone is Landing
LandingUpdate(id) ==
    /\ loop.holder = "tick"
    /\ loop.pending # <<>>
    /\ id = Head(loop.pending)
    /\ id \in DOMAIN drones
    /\ drones[id].status = "landing"
    /\ loop' # loop

C37_TickFrame ==
    \A id \in DOMAIN drones :
        LandingUpdate(id) =>
            /\ SameBut(drones[id], drones'[id], {"z", "vz", "status", "battery"})
            /\ \A other \in DOMAIN drones \ {id} : drones'[other] = drones[other]

C37_LandingFrame == [] C37_UpdateFrame /\ [][C37_TickFrame]_vars

\* the figure-eight drone has landed while it was on its way to a waypoint
C37_Witness ==
    \E id \in OwnDrones :
        /\ experiment.request.scenario = "figure_eight"
        /\ LandIssued
        /\ drones[id].status = "idle"
        /\ drones[id].z = 0
        /\ drones[id].vz = 0
        /\ drones[id].vx # 0
        /\ drones[id].vy # 0

(***************************************************************************)
(* An emergency stop during an experiment.  emergency_stop has no await:   *)
(* the event loop runs it whole, at a moment when neither the script nor a *)
(* pass of the tick loop holds the loop, that is while the script waits in *)
(* an asyncio.sleep.  loop.after records the stop and the position of the  *)
(* script at that moment.                                                  *)
(***************************************************************************)
Stopped == loop.after.kind = "stop"

ExpEmergencyStop ==
    /\ loop.holder = "none"
    /\ experiment.waiting
    /\ ~Stopped
    /\ drones' = emergency_stop(drones)
    /\ loop' = [loop EXCEPT !.after = [kind |-> "stop", at |-> experiment.pc]]
    /\ UNCHANGED <<now, issued, noisy, plan, experiment, solver>>

NextStop ==
    \/ NextExp
    \/ ExpEmergencyStop

\* run_experiment has just been called on an empty registry, for one second
InitStop ==
    /\ InitExp
    /\ drones = EmptyRegistry
    /\ experiment.request.duration = 1

StopSpec == InitStop /\ [][NextStop]_vars

(***************************************************************************)
(* C34: once emergency_stop has run during an experiment, no command that  *)
(* the already-running script issues afterwards (set_formation, goto,      *)
(* land) takes a drone out of Idle: each of those commands fails on the    *)
(* Idle drones, so the stop is not undone by the script's remaining steps. *)
(***************************************************************************)
\* the value that the command of the script returns
Returns(reg, instruction, time) ==
    LET a == instruction.a
    IN  IF instruction.op = "takeoff" THEN takeoff(reg, a[1], a[2], a[3], time).ret
        ELSE IF instruction.op = "set_formation"
        THEN set_formation(reg, a[1], a[2]).ret
        ELSE IF instruction.op = "goto"
        THEN goto(reg, a[1], a[2], a[3], a[4], a[5]).ret
        ELSE IF instruction.op = "land" THEN land(reg, a[1], time).ret
        ELSE TRUE

\* the step is a command of the script
ScriptCommand ==
    /\ loop.holder = "script"
    /\ ~Done
    /\ experiment.program[experiment.pc].op \notin {"sleep", "return"}
    /\ experiment'.pc = experiment.pc + 1

AllIdle(reg) == \A id \in DOMAIN reg : reg[id].status = "idle"

C34_CommandFails ==
    (Stopped /\ ScriptCommand) =>
        /\ experiment.program[experiment.pc].op \in {"set_formation", "goto", "land"}
        /\ ~Returns(drones, experiment.program[experiment.pc], now)
        /\ drones' = drones

C34_StopHolds == [](Stopped => AllIdle(drones)) /\ [][C34_CommandFails]_vars

\* after a stop in mid-air the script has gone on to its goto, set_formation
\* and land commands, and the drone is still Idle where the stop left it
C34_Witness ==
    /\ Stopped
    /\ Done
    /\ \E k \in loop.after.at..Len(experiment.program) :
          experiment.program[k].op \in {"goto", "set_formation"}
    /\ \E k \in loop.after.at..Len(experiment.program) :
          experiment.program[k].op = "land"
    /\ \E id \in OwnDrones :
          /\ drones[id].status = "idle"
          /\ drones[id].z > LandedThreshold

(***************************************************************************)
(* A flight to a target with nothing but noise-free ticks: one drone,      *)
(* Flying at (0, 0, 0.6), is given one goto, and the tick loop then runs   *)
(* its passes, one per period, for as long as the simulator runs.          *)
(***************************************************************************)
MaxReachTicks == 64

\* the corners and edges of the workspace, the floor, and a target outside
ReachTargets ==
    FlyTargets \cup
    {<<2000, 2000, 1000>>, <<-2000, 2000, 0>>, <<0, -2000, 600>>,
     <<-1000, -500, 1000>>, <<0, 0, 0>>, <<2500, 0, 600>>}

InitReach ==
    /\ now = dt
    /\ issued = 0
    /\ noisy = 0
    /\ plan = NoPlan
    /\ loop = Sleeping
    /\ experiment = NoExperiment
    /\ solver = NoFormation
    /\ \E run_id \in RunIds, target \in ReachTargets, speed \in Speeds :
          LET created == create_swarm(EmptyRegistry, 1, run_id).drones
              commanded == takeoff(created, 1, DefaultHeight, 0, 0).drones
              airborne == update_drones(commanded, 0,
                                        [id \in DOMAIN commanded |-> NoNoise])
          IN  drones = goto(airborne, 1, target[1], target[2], target[3],
                            speed).drones

ReachTick ==
    /\ now < MaxReachTicks * dt
    /\ drones' = update_drones(drones, now, [id \in DOMAIN drones |-> NoNoise])
    /\ now' = now + dt
    /\ UNCHANGED <<issued, noisy, plan, loop, experiment, solver>>

ReachSpec == InitReach /\ [][ReachTick]_vars /\ WF_vars(ReachTick)

(***************************************************************************)
(* C38: absent noise, further commands and battery depletion, a Flying     *)
(* drone whose target lies inside the workspace bounds eventually comes    *)
(* within 0.05 of its target and from then on holds there with zero        *)
(* velocity, remaining Flying.                                             *)
(***************************************************************************)
TargetInside(drone) ==
    /\ Abs(drone.target_x) <= workspace_bounds
    /\ Abs(drone.target_y) <= workspace_bounds
    /\ drone.target_z <= max_height

FlyingInside ==
    /\ drones[1].status = "flying"
    /\ drones[1].battery > 0
    /\ TargetInside(drones[1])

Holding ==
    /\ drones[1].status = "flying"
    /\ ~Far(drones[1])
    /\ Velocity(drones[1]) = <<0, 0, 0>>

\* once within 0.05 of the target a tick leaves the position where it is
HoldStep ==
    (drones[1].status = "flying" /\ ~Far(drones[1]) /\ drones[1].battery > DrainPerTick) =>
        /\ drones'[1].x = drones[1].x
        /\ drones'[1].y = drones[1].y
        /\ drones'[1].z = drones[1].z
        /\ drones'[1].status = "flying"

C38_Arrives == (FlyingInside ~> []Holding) /\ [][HoldStep]_vars

\* the drone has crossed the workspace to its corner and holds there
C38_Witness ==
    /\ Holding
    /\ drones[1].target_x = workspace_bounds
    /\ drones[1].target_z = max_height
    /\ drones[1].x > workspace_bounds - LandedThreshold
    /\ drones[1].x <= workspace_bounds

(***************************************************************************)
(* start, stop and _simulation_loop.  In this specification loop holds the *)
(* simulator's running flag, its _task handle (the index of the task that  *)
(* the last start created, 0 for None), the tasks that asyncio.create_task *)
(* has created (ready to run for the first time, suspended in the          *)
(* asyncio.sleep that ends a pass, or done), the calls of stop (the task   *)
(* each awaits, whether it has returned, and whether start was called      *)
(* while it was waiting), and the number of passes of _update_drones in    *)
(* the current tick period.  start has no await; stop suspends only in     *)
(* 'await self._task', and not at all when that task is done already.      *)
(***************************************************************************)
MaxCalls == 3
MaxLoopTicks == 3

Unstarted ==
    [running |-> FALSE, task |-> 0, tasks |-> <<>>, stops |-> <<>>, passes |-> 0]

\* 'while True:' in the place of the test of the running flag
while_true(running) == TRUE

\* 'while self.running:', evaluated when the task first runs and each time
\* its sleep ends
while_running(running) == running

InitLoop ==
    /\ now = 0
    /\ issued = 0
    /\ noisy = 0
    /\ plan = NoPlan
    /\ experiment = NoExperiment
    /\ solver = NoFormation
    /\ loop = Unstarted
    /\ \E run_id \in RunIds, age \in Ages :
          drones = Aged(create_swarm(EmptyRegistry, 1, run_id).drones, age)

\* start
Start ==
    /\ issued < MaxCalls
    /\ issued' = issued + 1
    /\ loop' = [loop EXCEPT
                   !.running = TRUE,
                   !.tasks = Append(@, [pc |-> "ready", wake |-> now]),
                   !.task = Len(loop.tasks) + 1,
                   !.stops = [k \in DOMAIN @ |->
                                 IF @[k].returned THEN @[k]
                                 ELSE [@[k] EXCEPT !.restarted = TRUE]]]
    /\ UNCHANGED <<drones, now, noisy, plan, experiment, solver>>

\* stop, up to its await
Stop ==
    /\ issued < MaxCalls
    /\ issued' = issued + 1
    /\ loop' = [loop EXCEPT
                   !.running = FALSE,
                   !.stops = Append(@,
                       [awaits |-> loop.task,
                        returned |-> IF loop.task = 0 THEN TRUE
                                     ELSE loop.tasks[loop.task].pc = "done",
                        restarted |-> FALSE])]
    /\ UNCHANGED <<drones, now, noisy, plan, experiment, solver>>

\* the awaited task is done: stop returns
StopReturn(k) ==
    /\ k \in DOMAIN loop.stops
    /\ ~loop.stops[k].returned
    /\ loop.tasks[loop.stops[k].awaits].pc = "done"
    /\ loop' = [loop EXCEPT !.stops[k].returned = TRUE]
    /\ UNCHANGED <<drones, now, issued, noisy, plan, experiment, solver>>

\* the task can run: it is new, or its sleep is over
Runnable(i) ==
    /\ i \in DOMAIN loop.tasks
    /\ loop.tasks[i].pc \in {"ready", "sleeping"}
    /\ loop.tasks[i].wake <= now

\* _simulation_loop from the test of the running flag to the next
\* asyncio.sleep, or to its end
TaskRun(i) ==
    /\ Runnable(i)
    /\ IF while_running(loop.running)
       THEN /\ drones' = update_drones(drones, now,
                                       [id \in DOMAIN drones |-> NoNoise])
            /\ loop' = [loop EXCEPT
                           !.tasks[i] = [pc |-> "sleeping", wake |-> now + dt],
                           !.passes = @ + 1]
       ELSE /\ drones' = drones
            /\ loop' = [loop EXCEPT !.tasks[i].pc = "done"]
    /\ UNCHANGED <<now, issued, noisy, plan, experiment, solver>>

\* one tick period passes, once every task that could run has run.  The loop
\* uses the clock only to measure its sleep: after MaxLoopTicks periods the
\* model keeps now where it is and moves the wake-up times of the sleeping
\* tasks back instead
TimePass ==
    /\ \A i \in DOMAIN loop.tasks : ~Runnable(i)
    /\ \A k \in DOMAIN loop.stops : ~ENABLED StopReturn(k)
    /\ IF now < MaxLoopTicks * dt
       THEN /\ now' = now + dt
            /\ loop' = [loop EXCEPT !.passes = 0]
       ELSE /\ now' = now
            /\ loop' = [loop EXCEPT
                           !.passes = 0,
                           !.tasks = [i \in DOMAIN @ |->
                                         IF @[i].pc = "sleeping"
                                         THEN [@[i] EXCEPT !.wake = @ - dt]
                                         ELSE @[i]]]
    /\ UNCHANGED <<drones, issued, noisy, plan, experiment, solver>>

NextLoop ==
    \/ Start
    \/ Stop
    \/ \E k \in 1..MaxCalls : StopReturn(k)
    \/ \E i \in 1..MaxCalls : TaskRun(i)
    \/ TimePass

\* the event loop runs every task that can run, and the clock advances
LoopSpec ==
    /\ InitLoop
    /\ [][NextLoop]_vars
    /\ \A i \in 1..MaxCalls : WF_vars(TaskRun(i))
    /\ \A k \in 1..MaxCalls : WF_vars(StopReturn(k))
    /\ WF_vars(TimePass)

(***************************************************************************)
(* C31 as stated: a single tick loop is the sole periodic mutator of drone *)
(* state: for every sequence of start() and stop() calls at most one tick  *)
(* loop is active at any time, so no drone receives two tick updates       *)
(* within one tick period.                                                 *)
(***************************************************************************)
ActiveLoops == {i \in DOMAIN loop.tasks : loop.tasks[i].pc # "done"}

C31_SingleLoop ==
    /\ Cardinality(ActiveLoops) <= 1
    /\ loop.passes <= 1

(***************************************************************************)
(* C33 as stated: after stop() is called on a started simulator the loop   *)
(* finishes the tick in progress, observes running = false and exits, so   *)
(* stop() eventually returns and no tick begins after it has returned.     *)
(***************************************************************************)
\* the k-th call of stop has been made, on a started simulator
StopCalled(k) == k \in DOMAIN loop.stops /\ loop.stops[k].awaits # 0

StopReturned(k) == k \in DOMAIN loop.stops /\ loop.stops[k].returned

C33_StopReturns ==
    \A k \in 1..MaxCalls : StopCalled(k) ~> StopReturned(k)

(***************************************************************************)
(* C33 for the calls of stop that no start overlaps: when start() is not   *)
(* called again before stop() has returned, stop() eventually returns, the *)
(* task it awaited having observed running = false and exited; and while   *)
(* running is false, that is until start() is called again, no pass of the *)
(* tick loop begins.                                                       *)
(***************************************************************************)
Restarted(k) == k \in DOMAIN loop.stops /\ loop.stops[k].restarted

\* a stop that has returned without a start in between awaited a task that
\* is done
ReturnedAfterExit ==
    \A k \in DOMAIN loop.stops :
        (StopCalled(k) /\ StopReturned(k) /\ ~Restarted(k)) =>
            loop.tasks[loop.stops[k].awaits].pc = "done"

\* no pass begins while running is false
NoTickWhenStopped == (~loop.running) => drones' = drones

C33_StopReturnsUnlessRestarted ==
    /\ \A k \in 1..MaxCalls : StopCalled(k) ~> (StopReturned(k) \/ Restarted(k))
    /\ []ReturnedAfterExit
    /\ [][NoTickWhenStopped]_vars

\* a stop that had to wait for the sleeping loop has returned, after the loop
\* had run passes
C33_Witness ==
    \E k \in DOMAIN loop.stops :
        /\ StopCalled(k)
        /\ StopReturned(k)
        /\ ~Restarted(k)
        /\ ~loop.running
        /\ loop.tasks[loop.stops[k].awaits].wake > 0
        /\ ActiveLoops = {}
        /\ \E age \in Ages : drones[1].battery < Aged(drones, age)[1].battery

====
